---- MODULE Spec2Model ----
(***************************************************************************)
(* A model of the festive-ui particle engine: ParticlePool, ParticleEngine *)
(* and the collaborators the engine drives (effect renderers, the          *)
(* reduced-motion signal, the performance monitor).                        *)
(*                                                                         *)
(* Records live in a heap (heap[ref]); a reference is an index into it, so *)
(* that two holders of one record are visible as two uses of one index.    *)
(* Clock values are in thirds of a millisecond, which makes every spawn    *)
(* interval 1000 / spawnRate of INTENSITY_MAP a whole number.              *)
(***************************************************************************)
EXTENDS Integers, Sequences, FiniteSets, TLC

VARIABLES
    heap,               \* every Particle object ever created, by reference
    pool,               \* ParticlePool: [free, activeCount, maxSize]
    effects,            \* ParticleEngine.effects: type -> renderer
    activeEffects,      \* ParticleEngine.activeEffects: id -> ActiveEffect
    particles,          \* ParticleEngine.particles: id -> [particle, effectId]
    particleIdCounter,  \* ParticleEngine.particleIdCounter
    effectIdCounter,    \* number of session ids handed out (ids are unique)
    canvas,             \* ParticleEngine.canvas is set
    ctx,                \* ParticleEngine.ctx is set
    animationId,        \* ParticleEngine.animationId (0 is null)
    pendingFrames,      \* frame callbacks requested, not yet run or cancelled
    frameHandles,       \* handles requestAnimationFrame has returned so far
    domListeners,       \* listeners attached to window, document, media query
    canvases,           \* canvas elements appended to the container
    eventListeners,     \* ParticleEngine.eventListeners: event -> callbacks
    perfListeners,      \* PerformanceMonitor.listeners
    isPaused,           \* ParticleEngine.isPaused
    isVisible,          \* ParticleEngine.isVisible
    globalIntensity,    \* ParticleEngine.globalIntensity
    lastFrameTime,      \* ParticleEngine.lastFrameTime
    now,                \* performance.now()
    prefersReducedMotion, \* AccessibilityManager._prefersReducedMotion
    frameTimes,         \* PerformanceMonitor.frameTimes
    frameCount,         \* PerformanceMonitor.frameCount
    droppedFrames,      \* PerformanceMonitor.droppedFrames
    emitted,            \* events emitted by the last operation
    delivered,          \* listener invocations made by the last operation
    updated,            \* particles the last operation called update() on
    rendered,           \* particles the last operation called render() on
    rejected,           \* particles whose update() returned false in it
    lastOp              \* the last operation called and its arguments

vars == <<heap, pool, effects, activeEffects, particles, particleIdCounter,
          effectIdCounter, canvas, isPaused, isVisible,
          globalIntensity, lastFrameTime, now, prefersReducedMotion,
          frameTimes, frameCount, droppedFrames, emitted, lastOp,
          ctx, animationId, pendingFrames, frameHandles, domListeners,
          canvases, eventListeners, perfListeners, delivered,
          updated, rendered, rejected>>

engineVars == <<effects, activeEffects, particles, particleIdCounter,
                effectIdCounter, canvas, isPaused, isVisible,
                globalIntensity, lastFrameTime, now, prefersReducedMotion,
                frameTimes, frameCount, droppedFrames, emitted,
                ctx, animationId, pendingFrames, frameHandles, domListeners,
                canvases, eventListeners, perfListeners, delivered,
          updated, rendered, rejected>>

\* The paint surface and the host's frame and listener registries.
surfaceVars == <<ctx, animationId, pendingFrames, frameHandles, domListeners,
                 canvases>>

\* The callbacks subscribed to the engine and to its monitor.
listenerVars == <<eventListeners, perfListeners>>

\* What the operations below read and write: everything but the record of
\* the last call, which each specification keeps for the calls it observes.
progVars == <<heap, pool, effects, activeEffects, particles,
              particleIdCounter, effectIdCounter, canvas, isPaused,
              isVisible, globalIntensity, lastFrameTime, now,
              prefersReducedMotion, frameTimes, frameCount, droppedFrames,
              emitted, ctx, animationId, pendingFrames, frameHandles,
              domListeners, canvases, eventListeners, perfListeners,
              delivered, updated, rendered, rejected>>

(***************************************************************************)
(* Bounds of the model.                                                    *)
(***************************************************************************)
MaxRecords == 3        \* records a stand-alone pool may manufacture
MaxPoolSize == 2       \* largest maxSize a stand-alone pool is built with
MaxPrewarm == 2        \* largest count passed to prewarm()

Min(a, b) == IF a <= b THEN a ELSE b
Max(a, b) == IF a >= b THEN a ELSE b

(***************************************************************************)
(* Particle objects.                                                       *)
(***************************************************************************)
FieldNames ==
    {"x", "y", "vx", "vy", "ax", "ay", "size", "opacity", "color",
     "rotation", "rotationSpeed", "life", "maxLife", "phase", "meta"}

\* ParticlePool.createParticle: a new object with the default values.
\* meta is a set of <<key, value>> pairs; {} is the empty bag.
createParticle ==
    [x |-> 0, y |-> 0, vx |-> 0, vy |-> 0, ax |-> 0, ay |-> 0,
     size |-> 0, opacity |-> 1, color |-> "#FFFFFF",
     rotation |-> 0, rotationSpeed |-> 0,
     life |-> 0, maxLife |-> 100, phase |-> "active", meta |-> {}]

\* A reset that forgets the meta bag (and the lifecycle cap).
resetParticleKeepsMeta(p) ==
    [p EXCEPT !.x = 0, !.y = 0, !.vx = 0, !.vy = 0, !.ax = 0, !.ay = 0,
              !.size = 0, !.opacity = 1, !.color = "#FFFFFF",
              !.rotation = 0, !.rotationSpeed = 0,
              !.life = 0, !.phase = "active"]

\* ParticlePool.resetParticle: every field assigned its default.
resetParticle(p) ==
    [p EXCEPT !.x = 0, !.y = 0, !.vx = 0, !.vy = 0, !.ax = 0, !.ay = 0,
              !.size = 0, !.opacity = 1, !.color = "#FFFFFF",
              !.rotation = 0, !.rotationSpeed = 0,
              !.life = 0, !.maxLife = 100, !.phase = "active", !.meta = {}]

\* What a caller (an effect's spawn/update) leaves in a record.  Fractional
\* and unbounded values are stood for by whole numbers other than the
\* defaults: every field differs from createParticle.
WrittenParticles ==
    { [x |-> 120, y |-> 650, vx |-> 1, vy |-> -1, ax |-> 1, ay |-> 1,
       size |-> 30, opacity |-> 0, color |-> "#FF6B6B",
       rotation |-> 2, rotationSpeed |-> 1,
       life |-> 5, maxLife |-> 999, phase |-> "dying",
       meta |-> {<<"swayOffset", 3>>, <<"swaySpeed", 1>>}],
      [x |-> 40, y |-> -10, vx |-> 0, vy |-> 1, ax |-> 0, ay |-> 0,
       size |-> 3, opacity |-> 1, color |-> "#FFFFFF",
       rotation |-> 0, rotationSpeed |-> 0,
       life |-> 0, maxLife |-> 999, phase |-> "active",
       meta |-> {<<"driftOffset", 4>>}] }

(***************************************************************************)
(* ParticlePool.  Each operation maps [heap, pool] to [heap, pool] (plus   *)
(* the returned references for acquire).  An operation is written for a    *)
(* run of n consecutive calls, so that the loops of the engine (the        *)
(* initial spawn, the release of a session's particles) are one step of    *)
(* evaluation; the single call is the run of length one.                   *)
(***************************************************************************)
\* prewarm(count): push count new default records.
PoolPrewarm(h, p, count) ==
    [heap |-> h \o [i \in 1..count |-> createParticle],
     pool |-> [p EXCEPT !.free = @ \o [i \in 1..count |-> Len(h) + i]]]

\* new ParticlePool(maxSize): prewarm(Math.min(100, maxSize)).
NewPool(h, maxSize) ==
    PoolPrewarm(h, [free |-> <<>>, activeCount |-> 0, maxSize |-> maxSize],
                Min(100, maxSize))

\* An acquire that hands out pooled records and leaves them in the pool.
AcquireManyPeeks(h, p, n) ==
    LET len == Len(p.free)
        popped == Min(n, len)
        taken == {p.free[i] : i \in (len - popped + 1)..len}
    IN [heap |-> [r \in DOMAIN h |->
                     IF r \in taken THEN resetParticle(h[r]) ELSE h[r]]
                  \o [i \in 1..(n - popped) |-> createParticle],
        pool |-> [p EXCEPT !.activeCount = @ + n],
        refs |-> [i \in 1..n |->
                    IF i <= len THEN p.free[len - i + 1]
                    ELSE Len(h) + (i - len)]]

\* n calls of acquire(): each does activeCount++, then pops the last pooled
\* record and resets it, or creates a record when the free list is empty.
AcquireMany(h, p, n) ==
    LET len == Len(p.free)
        popped == Min(n, len)
        taken == {p.free[i] : i \in (len - popped + 1)..len}
    IN [heap |-> [r \in DOMAIN h |->
                     IF r \in taken THEN resetParticle(h[r]) ELSE h[r]]
                  \o [i \in 1..(n - popped) |-> createParticle],
        pool |-> [p EXCEPT !.activeCount = @ + n,
                           !.free = SubSeq(p.free, 1, len - popped)],
        refs |-> [i \in 1..n |->
                    IF i <= len THEN p.free[len - i + 1]
                    ELSE Len(h) + (i - len)]]

\* acquire()
PoolAcquire(h, p) ==
    LET a == AcquireMany(h, p, 1)
    IN [heap |-> a.heap, pool |-> a.pool, ref |-> a.refs[1]]

\* A release whose counter is not clamped at zero.
ReleaseAllUnclamped(h, p, refs) ==
    LET pushed == SubSeq(refs, 1, Min(Len(refs),
                                      Max(0, p.maxSize - Len(p.free))))
        reset == {pushed[i] : i \in 1..Len(pushed)}
    IN [heap |-> [r \in DOMAIN h |->
                     IF r \in reset THEN resetParticle(h[r]) ELSE h[r]],
        pool |-> [p EXCEPT !.activeCount = @ - Len(refs),
                           !.free = @ \o pushed]]

\* release(particle) for each record of refs in turn: activeCount =
\* Math.max(0, activeCount - 1); while the free list is below maxSize the
\* record is reset and pushed, else it is dropped.
ReleaseAll(h, p, refs) ==
    LET pushed == SubSeq(refs, 1, Min(Len(refs),
                                      Max(0, p.maxSize - Len(p.free))))
        reset == {pushed[i] : i \in 1..Len(pushed)}
    IN [heap |-> [r \in DOMAIN h |->
                     IF r \in reset THEN resetParticle(h[r]) ELSE h[r]],
        pool |-> [p EXCEPT !.activeCount = Max(0, @ - Len(refs)),
                           !.free = @ \o pushed]]

\* release(particle)
PoolRelease(h, p, r) == ReleaseAll(h, p, <<r>>)

\* clear(): pool.length = 0; activeCount = 0.
PoolClear(p) == [p EXCEPT !.free = <<>>, !.activeCount = 0]

getActiveCount == pool.activeCount
getPoolSize == Len(pool.free)

(***************************************************************************)
(* Effect renderers and options.                                           *)
(***************************************************************************)
IntensityLevels == {"off", "low", "medium", "high"}

\* PERFORMANCE_BUDGET
MAX_PARTICLES_GLOBAL == 100
MAX_FRAME_TIME == 16
\* new ParticlePool(500) in the engine's constructor
EnginePoolSize == 500
\* PerformanceMonitor.maxSamples
maxSamples == 60

\* The renderer's MAX_PARTICLES.
RendererBase(renderer) ==
    CASE renderer = "SnowRenderer" -> 80
      [] renderer = "ConfettiRenderer" -> 100
      [] renderer = "BalloonsRenderer" -> 12
      [] renderer = "SkyLanternsRenderer" -> 6

\* Math.floor(base * INTENSITY_MAP[level].countMultiplier), the
\* multipliers being 0, 0.4, 1 and 1.8.
ScaledCount(base, level) ==
    CASE level = "off" -> 0
      [] level = "low" -> (base * 4) \div 10
      [] level = "medium" -> base
      [] level = "high" -> (base * 18) \div 10

\* options.intensity || 'medium'
IntensityOf(options) ==
    IF options.intensity = "undefined" THEN "medium" ELSE options.intensity

\* EffectRenderer.getMaxParticles(options)
getMaxParticles(renderer, options) ==
    Min(ScaledCount(RendererBase(renderer), IntensityOf(options)),
        RendererBase(renderer))

\* 1000 / INTENSITY_MAP[level].spawnRate in thirds of a millisecond
\* (1.5, 4 and 8 per second); 0 stands for the infinite interval of 'off'.
SpawnInterval(level) ==
    CASE level = "off" -> 0
      [] level = "low" -> 2000
      [] level = "medium" -> 750
      [] level = "high" -> 375

\* EffectRenderer.spawn(particle, options): every field but meta is
\* assigned; meta gets the renderer's keys added.
RendererSpawn(renderer, p) ==
    CASE renderer = "SnowRenderer" ->
           [p EXCEPT !.x = 40, !.y = -10, !.vx = 0, !.vy = 1, !.ax = 0,
                     !.ay = 0, !.size = 3, !.opacity = 1,
                     !.color = "#FFFFFF", !.rotation = 0,
                     !.rotationSpeed = 0, !.life = 0, !.maxLife = 999,
                     !.phase = "active",
                     !.meta = {kv \in p.meta : kv[1] # "driftOffset"}
                                \cup {<<"driftOffset", 4>>}]
      [] renderer = "ConfettiRenderer" ->
           [p EXCEPT !.x = 200, !.y = -20, !.vx = 2, !.vy = 3, !.ax = 0,
                     !.ay = 1, !.size = 8, !.opacity = 1,
                     !.color = "#FF6B6B", !.rotation = 1,
                     !.rotationSpeed = 1, !.life = 0, !.maxLife = 180,
                     !.phase = "active",
                     !.meta = {kv \in p.meta : kv[1] # "shape"}
                                \cup {<<"shape", 1>>}]
      [] renderer = "BalloonsRenderer" ->
           [p EXCEPT !.x = 120, !.y = 650, !.vx = 0, !.vy = -1, !.ax = 0,
                     !.ay = 0, !.size = 30, !.opacity = 0,
                     !.color = "#FF6B6B", !.rotation = 0,
                     !.rotationSpeed = 0, !.life = 0, !.maxLife = 999,
                     !.phase = "active",
                     !.meta = {kv \in p.meta : kv[1] # "swayOffset"}
                                \cup {<<"swayOffset", 3>>}]
      [] renderer = "SkyLanternsRenderer" ->
           [p EXCEPT !.x = 300, !.y = 880, !.vx = 0, !.vy = -1, !.ax = 0,
                     !.ay = 0, !.size = 55, !.opacity = 0,
                     !.color = "#FFA500", !.rotation = 0,
                     !.rotationSpeed = 0, !.life = 0, !.maxLife = 999,
                     !.phase = "active",
                     !.meta = {kv \in p.meta :
                                  kv[1] \notin {"swayOffset", "swaySpeed"}}
                                \cup {<<"swayOffset", 2>>, <<"swaySpeed", 1>>}]

(***************************************************************************)
(* ParticleEngine.  The engine's mutable collections travel through the    *)
(* helpers as one record st = [heap, pool, particles, activeEffects,       *)
(* particleIdCounter].                                                     *)
(***************************************************************************)
EngineState ==
    [heap |-> heap, pool |-> pool, particles |-> particles,
     activeEffects |-> activeEffects,
     particleIdCounter |-> particleIdCounter]

Without(f, keys) == [k \in DOMAIN f \ keys |-> f[k]]

MinOf(S) == CHOOSE m \in S : \A n \in S : m <= n

\* A session that looks its renderer up under its type whenever it needs it.
SessionRendererByType(st, effectId) ==
    effects[st.activeEffects[effectId].type]

\* activeEffect.renderer: the renderer start() found registered and stored
\* in the session.
SessionRenderer(st, effectId) == st.activeEffects[effectId].renderer

\* A spawn that does not look at the global ceiling.
SpawnRoomNoCeiling(st, effectId) ==
    LET ae == st.activeEffects[effectId] IN
    Max(0, getMaxParticles(ae.renderer, ae.options)
             - Cardinality(ae.particleIds))

\* A spawn that does not look at the session's capacity.
SpawnRoomNoCapacity(st, effectId) ==
    Max(0, MAX_PARTICLES_GLOBAL - Cardinality(DOMAIN st.particles))

\* The two refusals of spawnParticleForEffect: how many more particles it
\* lets the session have, given the table and the session as they are.
SpawnRoom(st, effectId) ==
    LET ae == st.activeEffects[effectId] IN
    Min(Max(0, MAX_PARTICLES_GLOBAL - Cardinality(DOMAIN st.particles)),
        Max(0, getMaxParticles(SessionRenderer(st, effectId), ae.options)
                 - Cardinality(ae.particleIds)))

\* A spawn that acquires its record before it tests the two limits, and
\* keeps the record of a refused call.
spawnParticlesAcquireFirst(st, effectId, count) ==
    LET ae == st.activeEffects[effectId]
        n == Min(count, SpawnRoom(st, effectId))
        a == AcquireMany(st.heap, st.pool, count)
        got == {a.refs[i] : i \in 1..n}
        ids == st.particleIdCounter .. (st.particleIdCounter + n - 1)
    IN [heap |-> [r \in DOMAIN a.heap |->
                     IF r \in got
                     THEN RendererSpawn(SessionRenderer(st, effectId),
                                        a.heap[r])
                     ELSE a.heap[r]],
        pool |-> a.pool,
        particles |->
            [pid \in DOMAIN st.particles \cup ids |->
                IF pid \in ids
                THEN [particle |-> a.refs[pid - st.particleIdCounter + 1],
                      effectId |-> effectId]
                ELSE st.particles[pid]],
        activeEffects |->
            [st.activeEffects EXCEPT ![effectId].particleIds = @ \cup ids],
        particleIdCounter |-> st.particleIdCounter + n]

\* count calls of spawnParticleForEffect(effectId, activeEffect): each is
\* refused at the global ceiling or at the session's capacity, else it
\* acquires a record, lets the renderer spawn it, and enters it under the
\* next particle id in the table and in the session's id set.
spawnParticlesForEffect(st, effectId, count) ==
    LET ae == st.activeEffects[effectId]
        n == Min(count, SpawnRoom(st, effectId))
        a == AcquireMany(st.heap, st.pool, n)
        got == {a.refs[i] : i \in 1..n}
        ids == st.particleIdCounter .. (st.particleIdCounter + n - 1)
    IN [heap |-> [r \in DOMAIN a.heap |->
                     IF r \in got
                     THEN RendererSpawn(SessionRenderer(st, effectId),
                                        a.heap[r])
                     ELSE a.heap[r]],
        pool |-> a.pool,
        particles |->
            [pid \in DOMAIN st.particles \cup ids |->
                IF pid \in ids
                THEN [particle |-> a.refs[pid - st.particleIdCounter + 1],
                      effectId |-> effectId]
                ELSE st.particles[pid]],
        activeEffects |->
            [st.activeEffects EXCEPT ![effectId].particleIds = @ \cup ids],
        particleIdCounter |-> st.particleIdCounter + n]

\* spawnParticleForEffect(effectId, activeEffect) and its result
spawnParticleForEffect(st, effectId) ==
    [st |-> spawnParticlesForEffect(st, effectId, 1),
     spawned |-> SpawnRoom(st, effectId) > 0]

\* An initial spawn whose loop stops one short.
SpawnInitialOneShort(st, effectId, count) ==
    spawnParticlesForEffect(st, effectId, Max(0, count - 1))

\* start(): for (i = 0; i < initialCount; i++) spawnParticleForEffect(...)
SpawnInitial(st, effectId, count) ==
    spawnParticlesForEffect(st, effectId, count)

MaxOf(S) == CHOOSE m \in S : \A n \in S : m >= n

\* The elements of a set of numbers in increasing order: a Map or Set keyed
\* by increasing ids iterates in that order.
SortedSeq(S) ==
    IF S = {} THEN <<>>
    ELSE LET lo == MinOf(S)
             InS(i) == i \in S
         IN SelectSeq([i \in 1..(MaxOf(S) - lo + 1) |-> lo + i - 1], InS)

RefsOf(parts, ids) ==
    LET present == SortedSeq(ids \cap DOMAIN parts)
    IN [i \in 1..Len(present) |-> parts[present[i]].particle]


(***************************************************************************)
(* Inputs.                                                                 *)
(***************************************************************************)
MaxStarts == 2         \* sessions created in one run
MaxFrames == 2         \* frames rendered in one run

\* EffectOptions a caller passes to start(): {}, and the levels by name.
NoOptions == [intensity |-> "undefined", disableOnReducedMotion |-> "undefined"]
LowOptions == [intensity |-> "low", disableOnReducedMotion |-> "false"]
HighOptions == [intensity |-> "high", disableOnReducedMotion |-> "undefined"]

\* Time between two frame callbacks, in thirds of a millisecond: one
\* display frame (16.67 ms), and a frame delayed by two thirds of a second
\* (by when every spawn interval has elapsed).
FrameDeltas == {50, 2000}

\* performance.now() - startTime measured by endFrame, in ms.
FrameCosts == {4}

NoOp == [name |-> "none", id |-> 0, hit |-> FALSE, type |-> "",
         options |-> NoOptions]

(***************************************************************************)
(* Initial states.                                                         *)
(***************************************************************************)
\* new ParticleEngine(): the pool is prewarmed, nothing is registered or
\* running, and the reduced-motion preference is read from the media query.
EngineFields(reduced) ==
    /\ effects = <<>>
    /\ activeEffects = <<>>
    /\ particles = <<>>
    /\ particleIdCounter = 0
    /\ effectIdCounter = 0
    /\ canvas = FALSE
    /\ isPaused = FALSE
    /\ isVisible = TRUE
    /\ globalIntensity = "medium"
    /\ lastFrameTime = 0
    /\ now = 0
    /\ prefersReducedMotion = reduced
    /\ frameTimes = <<>>
    /\ frameCount = 0
    /\ droppedFrames = 0
    /\ emitted = <<>>
    /\ lastOp = NoOp
    /\ ctx = FALSE
    /\ animationId = 0
    /\ pendingFrames = {}
    /\ frameHandles = 0
    /\ domListeners = {"change"}
    /\ canvases = 0
    /\ eventListeners = <<>>
    /\ perfListeners = <<>>
    /\ delivered = <<>>
    /\ updated = {}
    /\ rendered = {}
    /\ rejected = {}

EngineInit(reduced) ==
    LET np == NewPool(<<>>, EnginePoolSize) IN
    /\ heap = np.heap
    /\ pool = np.pool
    /\ EngineFields(reduced)

(***************************************************************************)
(* Engine operations.                                                      *)
(***************************************************************************)
\* The callbacks a caller subscribes: one that returns and one that throws
\* whenever it is called.
Callbacks == {"logs", "throws"}

Throwing == {"throws"}

\* An emit without try/catch: the first callback that throws ends the loop.
emitUncaught(ev) ==
    IF ev.event \in DOMAIN eventListeners
    THEN LET ls == eventListeners[ev.event]
             stops == {i \in 1..Len(ls) : ls[i] \in Throwing}
             last == IF stops = {} THEN Len(ls)
                     ELSE CHOOSE i \in stops : \A j \in stops : i <= j
         IN [i \in 1..last |-> [listener |-> ls[i], event |-> ev.event]]
    ELSE <<>>

\* emit(event, data): every callback registered for the event is called,
\* in insertion order, inside try/catch.
emit(ev) ==
    IF ev.event \in DOMAIN eventListeners
    THEN [i \in 1..Len(eventListeners[ev.event]) |->
             [listener |-> eventListeners[ev.event][i], event |-> ev.event]]
    ELSE <<>>

RECURSIVE emitAll(_)
\* The emit calls of one operation, in order.
emitAll(events) ==
    IF events = <<>> THEN <<>>
    ELSE emit(Head(events)) \o emitAll(Tail(events))

\* PerformanceMonitor.notifyListeners(metrics): every listener is called,
\* in insertion order, inside try/catch.
notifyListeners ==
    [i \in 1..Len(perfListeners) |->
        [listener |-> perfListeners[i], event |-> "metrics"]]

\* A request that leaves two callbacks pending.
requestAnimationFrameTwice(pending) ==
    [handle |-> frameHandles + 1,
     pending |-> pending \cup {frameHandles + 1, frameHandles + 2}]

\* requestAnimationFrame(callback): a new handle, pending until it runs or
\* is cancelled.
requestAnimationFrame(pending) ==
    [handle |-> frameHandles + 1, pending |-> pending \cup {frameHandles + 1}]

\* A stopRenderLoop that leaves the requested frame callback pending.
stopRenderLoopNoCancel(pending) == pending

\* stopRenderLoop(): cancelAnimationFrame(animationId) unless it is null.
stopRenderLoop(pending) ==
    IF animationId # 0 THEN pending \ {animationId} ELSE pending

\* An init that does not look for an existing canvas.
alreadyInitializedNever == FALSE

\* init(): if (this.canvas), the engine is already initialized.
alreadyInitialized == canvas

\* init(): getContext returned null on a fresh engine, and init throws
\* 'Failed to get canvas 2D context'.
initThrows(contextAvailable) == ~alreadyInitialized /\ ~contextAvailable

\* init(container): warn and return when a canvas exists; else create the
\* canvas, get its context (throw when there is none), append the canvas,
\* attach the listeners and start the render loop.  contextAvailable is
\* what getContext('2d') returns.
init(contextAvailable) ==
    /\ emitted' = <<>>
    /\ delivered' = <<>>
    /\ updated' = {}
    /\ rendered' = {}
    /\ rejected' = {}
    /\ IF alreadyInitialized
       THEN UNCHANGED <<canvas, lastFrameTime, surfaceVars>>
       ELSE /\ canvas' = TRUE
            /\ ctx' = contextAvailable
            /\ IF ~contextAvailable
               THEN UNCHANGED <<lastFrameTime, animationId, pendingFrames,
                                frameHandles, domListeners, canvases>>
               ELSE LET raf == requestAnimationFrame(pendingFrames) IN
                    /\ canvases' = canvases + 1
                    /\ domListeners' =
                          domListeners \cup {"resize", "visibilitychange"}
                    /\ lastFrameTime' = now
                    /\ animationId' = raf.handle
                    /\ pendingFrames' = raf.pending
                    /\ frameHandles' = raf.handle
    /\ UNCHANGED <<heap, pool, effects, activeEffects, particles,
                   particleIdCounter, effectIdCounter, isPaused,
                   isVisible, globalIntensity, now, prefersReducedMotion,
                   frameTimes, frameCount, droppedFrames, listenerVars>>

\* registerEffect(type, renderer)
registerEffect(type, renderer) ==
    /\ effects' = [t \in DOMAIN effects \cup {type} |->
                     IF t = type THEN renderer ELSE effects[t]]
    /\ emitted' = <<>>
    /\ delivered' = emitAll(emitted')
    /\ updated' = {}
    /\ rendered' = {}
    /\ rejected' = {}
    /\ UNCHANGED <<heap, pool, activeEffects, particles, particleIdCounter,
                   effectIdCounter, canvas, isPaused, isVisible,
                   globalIntensity, lastFrameTime, now, prefersReducedMotion,
                   frameTimes, frameCount, droppedFrames,
                   surfaceVars, listenerVars>>

\* The ids of the handles start() has returned: createNoOpInstance's
\* (written 0; its stop is () => {}) and one per session created.
HandleIds == 0..effectIdCounter

\* start() that ignores the reduced-motion preference.
startSuppressedNever(options) == FALSE

\* start(): the reduced-motion test.
startSuppressed(options) ==
    prefersReducedMotion /\ options.disableOnReducedMotion # "false"

\* A start that emits its event before it looks the renderer up.
startEventsAlways(type, options) == <<[event |-> "start", type |-> type]>>

\* start(type, options): the events it emits.
startEvents(type, options) ==
    IF startSuppressed(options) \/ type \notin DOMAIN effects
    THEN <<>>
    ELSE <<[event |-> "start", type |-> type]>>

\* start(), for a registered effect that is not suppressed: the session is
\* stored under the new id with lastSpawnTime = performance.now(), and
\* floor(maxParticles * 0.5) particles are spawned for it.
startSession(st, id, type, options, time) ==
    LET renderer == effects[type]
        activeEffect == [type |-> type, renderer |-> renderer,
                         options |-> options, particleIds |-> {},
                         lastSpawnTime |-> time]
        st0 == [st EXCEPT !.activeEffects = @ @@ (id :> activeEffect)]
        maxParticles == getMaxParticles(renderer, options)
        initialCount == maxParticles \div 2
    IN SpawnInitial(st0, id, initialCount)

\* start(type, options)
start(type, options) ==
    IF startSuppressed(options) \/ type \notin DOMAIN effects
    THEN /\ emitted' = startEvents(type, options)
         /\ delivered' = emitAll(emitted')
         /\ updated' = {}
         /\ rendered' = {}
         /\ rejected' = {}
         /\ UNCHANGED <<heap, pool, effects, activeEffects, particles,
                        particleIdCounter, effectIdCounter, canvas, isPaused,
                        isVisible, globalIntensity, lastFrameTime, now,
                        prefersReducedMotion, frameTimes, frameCount,
                        droppedFrames,
                        surfaceVars, listenerVars>>
    ELSE LET id == effectIdCounter + 1
             st == startSession(EngineState, id, type, options, now)
         IN /\ effectIdCounter' = id
            /\ heap' = st.heap
            /\ pool' = st.pool
            /\ particles' = st.particles
            /\ activeEffects' = st.activeEffects
            /\ particleIdCounter' = st.particleIdCounter
            /\ emitted' = startEvents(type, options)
            /\ delivered' = emitAll(emitted')
            /\ updated' = {}
            /\ rendered' = {}
            /\ rejected' = {}
            /\ UNCHANGED <<effects, canvas, isPaused, isVisible,
                           globalIntensity, lastFrameTime, now,
                           prefersReducedMotion, frameTimes, frameCount,
                           droppedFrames,
                           surfaceVars, listenerVars>>

\* A stop that drops the session and leaves its particles in the table.
stopSessionOnly(st, id) ==
    [st EXCEPT !.activeEffects = Without(st.activeEffects, {id})]

\* A stop that deletes every session's entries from the table.
stopSessionClearsTable(st, id) ==
    LET ae == st.activeEffects[id]
        rel == ReleaseAll(st.heap, st.pool, RefsOf(st.particles, ae.particleIds))
    IN [st EXCEPT !.heap = rel.heap,
                  !.pool = rel.pool,
                  !.particles = <<>>,
                  !.activeEffects = Without(st.activeEffects, {id})]

\* stop(instance), for a session that exists: release every particle of the
\* session whose entry exists, delete the entries, delete the session.
stopSession(st, id) ==
    LET ae == st.activeEffects[id]
        rel == ReleaseAll(st.heap, st.pool, RefsOf(st.particles, ae.particleIds))
    IN [st EXCEPT !.heap = rel.heap,
                  !.pool = rel.pool,
                  !.particles = Without(st.particles, ae.particleIds),
                  !.activeEffects = Without(st.activeEffects, {id})]

\* A stop that emits its event before looking the session up.
stopEventsAlways(id) == <<[event |-> "stop", type |-> ""]>>

\* stop(instance): the events it emits.
stopEvents(id) ==
    IF id \in DOMAIN activeEffects
    THEN <<[event |-> "stop", type |-> activeEffects[id].type]>>
    ELSE <<>>

\* stop(instance); a no-op handle's stop() is () => {}.
stop(id) ==
    IF id \in DOMAIN activeEffects
    THEN LET st == stopSession(EngineState, id) IN
         /\ heap' = st.heap
         /\ pool' = st.pool
         /\ particles' = st.particles
         /\ activeEffects' = st.activeEffects
         /\ emitted' = stopEvents(id)
         /\ delivered' = emitAll(emitted')
         /\ updated' = {}
         /\ rendered' = {}
         /\ rejected' = {}
         /\ UNCHANGED <<effects, particleIdCounter, effectIdCounter,
                        canvas, isPaused, isVisible, globalIntensity,
                        lastFrameTime, now, prefersReducedMotion, frameTimes,
                        frameCount, droppedFrames,
                        surfaceVars, listenerVars>>
    ELSE /\ emitted' = stopEvents(id)
         /\ delivered' = emitAll(emitted')
         /\ updated' = {}
         /\ rendered' = {}
         /\ rejected' = {}
         /\ UNCHANGED <<heap, pool, effects, activeEffects, particles,
                        particleIdCounter, effectIdCounter, canvas,
                        isPaused, isVisible, globalIntensity, lastFrameTime,
                        now, prefersReducedMotion, frameTimes, frameCount,
                        droppedFrames,
                        surfaceVars, listenerVars>>

RECURSIVE StopAllRelease(_, _, _, _, _)
\* stopAll(): activeEffects.forEach(effect => effect.particleIds.forEach(...
\* release the entry's record if the entry exists)).
StopAllRelease(h, p, parts, aes, ids) ==
    IF ids = <<>> THEN [heap |-> h, pool |-> p]
    ELSE LET rel == ReleaseAll(h, p, RefsOf(parts, aes[Head(ids)].particleIds))
         IN StopAllRelease(rel.heap, rel.pool, parts, aes, Tail(ids))

\* A stopAll that clears the maps and releases nothing.
stopAllStateKeepsRecords(st) ==
    [st EXCEPT !.particles = <<>>, !.activeEffects = <<>>]

\* stopAll(): release, then particles.clear() and activeEffects.clear().
stopAllState(st) ==
    LET rel == StopAllRelease(st.heap, st.pool, st.particles,
                              st.activeEffects,
                              SortedSeq(DOMAIN st.activeEffects))
    IN [st EXCEPT !.heap = rel.heap, !.pool = rel.pool,
                  !.particles = <<>>, !.activeEffects = <<>>]

\* A stopAll that emits 'stop' for every session it removes.
stopAllEventsPerSession(st) ==
    LET ids == SortedSeq(DOMAIN st.activeEffects) IN
    [i \in 1..Len(ids) |->
        [event |-> "stop", type |-> st.activeEffects[ids[i]].type]]

\* stopAll(): the events it emits: it has no emit call.
stopAllEvents(st) == <<>>

stopAll ==
    LET st == stopAllState(EngineState) IN
    /\ heap' = st.heap
    /\ pool' = st.pool
    /\ particles' = st.particles
    /\ activeEffects' = st.activeEffects
    /\ emitted' = stopAllEvents(EngineState)
    /\ delivered' = emitAll(emitted')
    /\ updated' = {}
    /\ rendered' = {}
    /\ rejected' = {}
    /\ UNCHANGED <<effects, particleIdCounter, effectIdCounter,
                   canvas, isPaused, isVisible, globalIntensity,
                   lastFrameTime, now, prefersReducedMotion, frameTimes,
                   frameCount, droppedFrames,
                   surfaceVars, listenerVars>>

\* setIntensity(level): store the level; 'off' stops everything.
setIntensity(level) ==
    LET st == IF level = "off" THEN stopAllState(EngineState)
              ELSE EngineState IN
    /\ globalIntensity' = level
    /\ heap' = st.heap
    /\ pool' = st.pool
    /\ particles' = st.particles
    /\ activeEffects' = st.activeEffects
    /\ emitted' = IF level = "off" THEN stopAllEvents(EngineState) ELSE <<>>
    /\ delivered' = emitAll(emitted')
    /\ updated' = {}
    /\ rendered' = {}
    /\ rejected' = {}
    /\ UNCHANGED <<effects, particleIdCounter, effectIdCounter,
                   canvas, isPaused, isVisible, lastFrameTime, now,
                   prefersReducedMotion, frameTimes, frameCount,
                   droppedFrames,
                   surfaceVars, listenerVars>>

\* A subscriber that ignores the change of preference.
onReducedMotionIgnored(st, matches) == st

\* The engine's subscriber to the AccessibilityManager (constructor):
\* stopAll() when the preference is now true.
onReducedMotion(st, matches) ==
    IF matches THEN stopAllState(st) ELSE st

\* The media query's change event, while the manager listens to it:
\* AccessibilityManager stores the value and notifies the engine's
\* subscriber.
handleMediaQueryChange(matches) ==
    LET st == onReducedMotion(EngineState, matches) IN
    /\ "change" \in domListeners
    /\ matches # prefersReducedMotion
    /\ prefersReducedMotion' = matches
    /\ heap' = st.heap
    /\ pool' = st.pool
    /\ particles' = st.particles
    /\ activeEffects' = st.activeEffects
    /\ emitted' = IF matches THEN stopAllEvents(EngineState) ELSE <<>>
    /\ delivered' = <<>>
    /\ updated' = {}
    /\ rendered' = {}
    /\ rejected' = {}
    /\ UNCHANGED <<effects, particleIdCounter, effectIdCounter,
                   canvas, isPaused, isVisible, globalIntensity,
                   lastFrameTime, now, frameTimes, frameCount, droppedFrames,
                   surfaceVars, listenerVars>>

\* destroy(): stopAll(), stopRenderLoop(), remove the canvas from its
\* parent, drop canvas and context, clear the pool, detach the media-query
\* listener, clear the event listeners, detach resize and visibilitychange.
destroy ==
    LET st == stopAllState(EngineState) IN
    /\ heap' = st.heap
    /\ pool' = PoolClear(st.pool)
    /\ particles' = st.particles
    /\ activeEffects' = st.activeEffects
    /\ pendingFrames' = stopRenderLoop(pendingFrames)
    /\ animationId' = 0
    /\ canvases' = IF canvas /\ ctx THEN canvases - 1 ELSE canvases
    /\ canvas' = FALSE
    /\ ctx' = FALSE
    /\ domListeners' = {}
    /\ eventListeners' = <<>>
    /\ emitted' = stopAllEvents(EngineState)
    /\ delivered' = <<>>
    /\ updated' = {}
    /\ rendered' = {}
    /\ rejected' = {}
    /\ UNCHANGED <<effects, particleIdCounter, effectIdCounter, isPaused,
                   isVisible, globalIntensity, lastFrameTime, now,
                   prefersReducedMotion, frameTimes, frameCount,
                   droppedFrames, frameHandles, perfListeners>>

\* setPaused(paused)
setPaused(paused) ==
    /\ isPaused' = paused
    /\ emitted' = <<>>
    /\ delivered' = <<>>
    /\ updated' = {}
    /\ rendered' = {}
    /\ rejected' = {}
    /\ UNCHANGED <<heap, pool, effects, activeEffects, particles,
                   particleIdCounter, effectIdCounter, canvas, isVisible,
                   globalIntensity, lastFrameTime, now, prefersReducedMotion,
                   frameTimes, frameCount, droppedFrames, surfaceVars,
                   listenerVars>>

\* The document's visibilitychange event, while the engine listens to it:
\* isVisible = !document.hidden.
handleVisibilityChange(hidden) ==
    /\ "visibilitychange" \in domListeners
    /\ isVisible' = ~hidden
    /\ emitted' = <<>>
    /\ delivered' = <<>>
    /\ updated' = {}
    /\ rendered' = {}
    /\ rejected' = {}
    /\ UNCHANGED <<heap, pool, effects, activeEffects, particles,
                   particleIdCounter, effectIdCounter, canvas, isPaused,
                   globalIntensity, lastFrameTime, now, prefersReducedMotion,
                   frameTimes, frameCount, droppedFrames, surfaceVars,
                   listenerVars>>

\* Set.add in insertion order: a callback already present stays where it is.
SetAdd(q, x) ==
    IF \E i \in 1..Len(q) : q[i] = x THEN q ELSE Append(q, x)

\* on(event, callback)
on(event, callback) ==
    /\ eventListeners' =
          [e \in DOMAIN eventListeners \cup {event} |->
              LET old == IF e \in DOMAIN eventListeners
                         THEN eventListeners[e] ELSE <<>>
              IN IF e = event THEN SetAdd(old, callback) ELSE old]
    /\ emitted' = <<>>
    /\ delivered' = <<>>
    /\ updated' = {}
    /\ rendered' = {}
    /\ rejected' = {}
    /\ UNCHANGED <<heap, pool, effects, activeEffects, particles,
                   particleIdCounter, effectIdCounter, canvas, isPaused,
                   isVisible, globalIntensity, lastFrameTime, now,
                   prefersReducedMotion, frameTimes, frameCount,
                   droppedFrames, surfaceVars, perfListeners>>

\* PerformanceMonitor.subscribe(callback)
subscribe(callback) ==
    /\ perfListeners' = SetAdd(perfListeners, callback)
    /\ emitted' = <<>>
    /\ delivered' = <<>>
    /\ updated' = {}
    /\ rendered' = {}
    /\ rejected' = {}
    /\ UNCHANGED <<heap, pool, effects, activeEffects, particles,
                   particleIdCounter, effectIdCounter, canvas, isPaused,
                   isVisible, globalIntensity, lastFrameTime, now,
                   prefersReducedMotion, frameTimes, frameCount,
                   droppedFrames, surfaceVars, eventListeners>>

\* burst(type, origin, options): emits 'burst' and does nothing else.
burst(type) ==
    /\ emitted' = <<[event |-> "burst", type |-> type]>>
    /\ delivered' = emitAll(emitted')
    /\ updated' = {}
    /\ rendered' = {}
    /\ rejected' = {}
    /\ UNCHANGED <<heap, pool, effects, activeEffects, particles,
                   particleIdCounter, effectIdCounter, canvas, isPaused,
                   isVisible, globalIntensity, lastFrameTime, now,
                   prefersReducedMotion, frameTimes, frameCount,
                   droppedFrames, surfaceVars, listenerVars>>


(***************************************************************************)
(* The frame callback.                                                     *)
(***************************************************************************)
\* A spawn test that never finds the interval elapsed.
spawnDueNever(level, elapsed) == FALSE

\* currentTime - lastSpawnTime >= 1000 / spawnRate (never, for rate 0).
spawnDue(level, elapsed) ==
    level # "off" /\ elapsed >= SpawnInterval(level)

\* A spawn loop that makes up for every interval that has elapsed.
SpawnCallsCatchUp(level, elapsed) ==
    IF level = "off" THEN 0 ELSE elapsed \div SpawnInterval(level)

\* renderLoop, continuous spawning: the number of spawnParticleForEffect
\* calls made for a session in one frame: one if the interval has elapsed
\* (an if, not a loop), else none.
SpawnCalls(level, elapsed) ==
    IF spawnDue(level, elapsed) THEN 1 ELSE 0

\* A spawn loop that stamps the session only when a particle was spawned.
SpawnStampOnSpawn(due, spawned, old, currentTime) ==
    IF due /\ spawned THEN currentTime ELSE old

\* renderLoop, continuous spawning: the session's lastSpawnTime after the
\* loop body.  The assignment follows the call inside the if, whatever the
\* call did.
SpawnStamp(due, spawned, old, currentTime) ==
    IF due THEN currentTime ELSE old

RECURSIVE SpawnPhase(_, _, _)
\* renderLoop, continuous spawning: activeEffects.forEach in insertion order.
SpawnPhase(st, ids, currentTime) ==
    IF ids = <<>> THEN st
    ELSE LET id == Head(ids)
             ae == st.activeEffects[id]
             due == spawnDue(IntensityOf(ae.options),
                             currentTime - ae.lastSpawnTime)
             s1 == spawnParticlesForEffect(
                       st, id, SpawnCalls(IntensityOf(ae.options),
                                          currentTime - ae.lastSpawnTime))
             spawned == s1.particleIdCounter # st.particleIdCounter
             s2 == [s1 EXCEPT
                      !.activeEffects[id].lastSpawnTime =
                          SpawnStamp(due, spawned, ae.lastSpawnTime,
                                     currentTime)]
         IN SpawnPhase(s2, Tail(ids), currentTime)

\* An update loop that queues only the particles without a session.
ToRemoveOrphansOnly(st, updateFalse) ==
    {pid \in DOMAIN st.particles :
        st.particles[pid].effectId \notin DOMAIN st.activeEffects}

\* renderLoop, update and render: the ids pushed to toRemove.  updateFalse
\* is the set of particles whose renderer.update returns false this frame.
ToRemove(st, updateFalse) ==
    {pid \in DOMAIN st.particles :
        \/ st.particles[pid].effectId \notin DOMAIN st.activeEffects
        \/ pid \in updateFalse}

\* A removal that leaves the ids in their sessions' id sets.
RemovePhaseKeepsIds(st, ids) ==
    LET present == SelectSeq(ids, LAMBDA pid : pid \in DOMAIN st.particles)
        gone == {present[i] : i \in 1..Len(present)}
        rel == ReleaseAll(st.heap, st.pool,
                          [i \in 1..Len(present) |->
                              st.particles[present[i]].particle])
    IN [st EXCEPT !.heap = rel.heap, !.pool = rel.pool,
                  !.particles = Without(@, gone)]

\* A removal that deletes the entries and keeps their records out of the
\* pool.
RemovePhaseLeaks(st, ids) ==
    LET present == SelectSeq(ids, LAMBDA pid : pid \in DOMAIN st.particles)
        gone == {present[i] : i \in 1..Len(present)}
    IN [st EXCEPT
          !.activeEffects =
              [id \in DOMAIN st.activeEffects |->
                  [st.activeEffects[id] EXCEPT !.particleIds = @ \ gone]],
          !.particles = Without(@, gone)]

\* renderLoop, remove dead particles: toRemove.forEach: the entry's id is
\* deleted from its session's id set (if the session exists), its record
\* released, the entry deleted.
RemovePhase(st, ids) ==
    LET present == SelectSeq(ids, LAMBDA pid : pid \in DOMAIN st.particles)
        gone == {present[i] : i \in 1..Len(present)}
        rel == ReleaseAll(st.heap, st.pool,
                          [i \in 1..Len(present) |->
                              st.particles[present[i]].particle])
    IN [st EXCEPT
          !.heap = rel.heap,
          !.pool = rel.pool,
          !.activeEffects =
              [id \in DOMAIN st.activeEffects |->
                  [st.activeEffects[id] EXCEPT !.particleIds =
                      @ \ {pid \in gone : st.particles[pid].effectId = id}]],
          !.particles = Without(@, gone)]

RECURSIVE SumSeq(_)
SumSeq(q) ==
    IF q = <<>> THEN 0
    ELSE IF Len(q) = 1 THEN q[1]
    ELSE SumSeq(SubSeq(q, 1, Len(q) \div 2))
           + SumSeq(SubSeq(q, Len(q) \div 2 + 1, Len(q)))

\* A window that drops the newest sample when it is full.
PushFrameTimeDropsNewest(samples, frameTime) ==
    LET pushed == Append(samples, frameTime) IN
    IF Len(pushed) > maxSamples THEN SubSeq(pushed, 1, maxSamples) ELSE pushed

\* PerformanceMonitor.endFrame: push the sample, shift past maxSamples.
PushFrameTime(samples, frameTime) ==
    LET pushed == Append(samples, frameTime) IN
    IF Len(pushed) > maxSamples THEN Tail(pushed) ELSE pushed

\* PerformanceMonitor.isCritical: average frame time > MAX_FRAME_TIME.
isCritical(samples) ==
    Len(samples) > 0 /\ SumSeq(samples) > MAX_FRAME_TIME * Len(samples)

\* PerformanceMonitor.isDegraded: average frame time > 12.
isDegraded(samples) ==
    Len(samples) > 0 /\ SumSeq(samples) > 12 * Len(samples)

\* PerformanceMonitor.endFrame(startTime, particleCount), frameTime being
\* performance.now() - startTime: the sample is pushed, the dropped-frame
\* and frame counters are advanced, the listeners are notified.
endFrame(frameTime) ==
    /\ frameTimes' = PushFrameTime(frameTimes, frameTime)
    /\ droppedFrames' = droppedFrames
          + (IF frameTime > MAX_FRAME_TIME THEN 1 ELSE 0)
    /\ frameCount' = frameCount + 1
    /\ emitted' = <<>>
    /\ delivered' = notifyListeners
    /\ updated' = {}
    /\ rendered' = {}
    /\ rejected' = {}
    /\ UNCHANGED <<heap, pool, effects, activeEffects, particles,
                   particleIdCounter, effectIdCounter, canvas, isPaused,
                   isVisible, globalIntensity, lastFrameTime, now,
                   prefersReducedMotion, surfaceVars, listenerVars>>

\* PerformanceMonitor.reset()
reset ==
    /\ frameTimes' = <<>>
    /\ frameCount' = 0
    /\ droppedFrames' = 0
    /\ emitted' = <<>>
    /\ delivered' = <<>>
    /\ updated' = {}
    /\ rendered' = {}
    /\ rejected' = {}
    /\ UNCHANGED <<heap, pool, effects, activeEffects, particles,
                   particleIdCounter, effectIdCounter, canvas, isPaused,
                   isVisible, globalIntensity, lastFrameTime, now,
                   prefersReducedMotion, surfaceVars, listenerVars>>

\* A frame end that never changes the intensity.
autoDegradeNever(samples, level) == level

\* renderLoop, after endFrame: if (isCritical() && globalIntensity !==
\* 'low') setIntensity('low'), which stores the level (and stops nothing,
\* the level not being 'off').
autoDegrade(samples, level) ==
    IF isCritical(samples) /\ level # "low" THEN "low" ELSE level

\* The update results a frame may see: none false, all false (of the
\* particles in the table before the frame, or of those and the ones the
\* frame spawns), or the oldest particle's false.
UpdateFalseChoices ==
    {{}, DOMAIN particles,
     DOMAIN particles \cup
        particleIdCounter
          ..(particleIdCounter + Cardinality(DOMAIN activeEffects) - 1)}
      \cup (IF DOMAIN particles = {} THEN {}
            ELSE {{MinOf(DOMAIN particles)}})

\* renderLoop, update and render: the particles renderer.update is called
\* on (those whose session exists).
UpdatePhase(st) ==
    {pid \in DOMAIN st.particles :
        st.particles[pid].effectId \in DOMAIN st.activeEffects}

\* renderLoop, update and render: the particles renderer.render is called
\* on (those whose update returned true).
RenderPhase(st, updateFalse) ==
    {pid \in UpdatePhase(st) : pid \notin updateFalse}

\* A frame that updates and renders before it spawns.
FramePhasesUpdateFirst(st, currentTime, updateFalse) ==
    LET s1 == RemovePhase(st, SortedSeq(ToRemove(st, updateFalse)))
        s2 == SpawnPhase(s1, SortedSeq(DOMAIN s1.activeEffects), currentTime)
    IN [st |-> s2, updated |-> UpdatePhase(st),
        rendered |-> RenderPhase(st, updateFalse)]

\* renderLoop, the three loops of an active frame in the order of the code:
\* continuous spawning, update and render, remove dead particles.
FramePhases(st, currentTime, updateFalse) ==
    LET s1 == SpawnPhase(st, SortedSeq(DOMAIN st.activeEffects), currentTime)
        s2 == RemovePhase(s1, SortedSeq(ToRemove(s1, updateFalse)))
    IN [st |-> s2, updated |-> UpdatePhase(s1),
        rendered |-> RenderPhase(s1, updateFalse)]

\* A frame callback that never returns early.
frameSkippedNever == FALSE

\* renderLoop: if (isPaused || !isVisible || !ctx || !canvas) return.
frameSkipped == isPaused \/ ~isVisible \/ ~ctx \/ ~canvas

\* renderLoop(currentTime), run by a pending frame callback.  delta is the
\* time since the previous callback, updateFalse the update results,
\* frameCost what endFrame measures.  The next callback is requested first;
\* a paused, hidden or surfaceless engine then returns.
renderLoop(delta, updateFalse, frameCost) ==
    LET currentTime == now + delta IN
    \E fired \in pendingFrames :
    LET raf == requestAnimationFrame(pendingFrames \ {fired}) IN
    /\ now' = currentTime
    /\ animationId' = raf.handle
    /\ pendingFrames' = raf.pending
    /\ frameHandles' = raf.handle
    /\ IF frameSkipped
       THEN /\ emitted' = <<>>
            /\ delivered' = <<>>
            /\ updated' = {}
            /\ rendered' = {}
            /\ rejected' = {}
            /\ UNCHANGED <<heap, pool, effects, activeEffects, particles,
                           particleIdCounter, effectIdCounter,
                           canvas, isPaused, isVisible, globalIntensity,
                           lastFrameTime, prefersReducedMotion, frameTimes,
                           frameCount, droppedFrames, ctx, domListeners,
                           canvases, listenerVars>>
       ELSE LET fp == FramePhases(EngineState, currentTime, updateFalse)
                s2 == fp.st
                samples == PushFrameTime(frameTimes, frameCost)
            IN /\ lastFrameTime' = currentTime
               /\ heap' = s2.heap
               /\ pool' = s2.pool
               /\ particles' = s2.particles
               /\ activeEffects' = s2.activeEffects
               /\ particleIdCounter' = s2.particleIdCounter
               /\ updated' = fp.updated
               /\ rendered' = fp.rendered
               /\ rejected' = fp.updated \cap updateFalse
               /\ frameTimes' = samples
               /\ droppedFrames' = droppedFrames
                     + (IF frameCost > MAX_FRAME_TIME THEN 1 ELSE 0)
               /\ frameCount' = frameCount + 1
               /\ globalIntensity' = autoDegrade(samples, globalIntensity)
               /\ emitted' = <<>>
               /\ delivered' = notifyListeners
               /\ UNCHANGED <<effects, effectIdCounter, canvas,
                              isPaused, isVisible, prefersReducedMotion,
                              ctx, domListeners, canvases, listenerVars>>

\* start(type, options) creates a session (and says which) or returns a
\* no-op handle.
StartCreates(type, options) ==
    ~startSuppressed(options) /\ type \in DOMAIN effects

\* What a renderer's update() may call on the engine while the frame's
\* update loop is running: start(type, options) or stop(instance).
HookCalls ==
    {[kind |-> "start", type |-> type, options |-> NoOptions, id |-> 0] :
        type \in DOMAIN effects}
      \cup {[kind |-> "stop", type |-> "", options |-> NoOptions, id |-> id] :
                id \in DOMAIN activeEffects}

\* The engine after the call made from inside update(): start() or stop()
\* run to completion on the maps the loop is iterating.
AfterHookCall(st, call, currentTime) ==
    IF call.kind = "start"
    THEN IF startSuppressed(call.options) \/ call.type \notin DOMAIN effects
         THEN st
         ELSE startSession(st, effectIdCounter + 1, call.type, call.options,
                           currentTime)
    ELSE IF call.id \in DOMAIN st.activeEffects
         THEN stopSession(st, call.id)
         ELSE st

\* The events the call made from inside update() emits.
HookCallEvents(call) ==
    IF call.kind = "start" THEN startEvents(call.type, call.options)
    ELSE stopEvents(call.id)

\* renderLoop, update and render, when update() of the entry hookPid makes
\* the call: this.particles.forEach walks the Map itself, in insertion
\* order (the order of the ids).  The entries up to hookPid are visited in
\* the table as it was; after the call the walk goes on over the table as
\* the call left it, so entries the call deleted are not visited and
\* entries it added are.
UpdatePhaseWithCall(s1, s1r, hookPid, updateFalse) ==
    LET before == {pid \in DOMAIN s1.particles : pid <= hookPid}
        after == {pid \in DOMAIN s1r.particles : pid > hookPid}
        updatedBefore == {pid \in before :
                            s1.particles[pid].effectId
                               \in DOMAIN s1.activeEffects}
        updatedAfter == {pid \in after :
                            s1r.particles[pid].effectId
                               \in DOMAIN s1r.activeEffects}
    IN [updated |-> updatedBefore \cup updatedAfter,
        toRemove |-> ((before \cup after)
                         \ (updatedBefore \cup updatedAfter))
                       \cup ((updatedBefore \cup updatedAfter)
                                \cap updateFalse)]

\* renderLoop(currentTime) of an active frame in which update() of the
\* entry hookPid calls start() or stop() on the engine.
renderLoopWithCall(delta, hookPid, call, updateFalse, frameCost) ==
    LET currentTime == now + delta IN
    \E fired \in pendingFrames :
    LET raf == requestAnimationFrame(pendingFrames \ {fired})
        s1 == SpawnPhase(EngineState, SortedSeq(DOMAIN activeEffects),
                         currentTime)
        s1r == AfterHookCall(s1, call, currentTime)
        up == UpdatePhaseWithCall(s1, s1r, hookPid, updateFalse)
        s2 == RemovePhase(s1r, SortedSeq(up.toRemove))
        samples == PushFrameTime(frameTimes, frameCost)
    IN /\ ~frameSkipped
       /\ hookPid \in UpdatePhase(s1)
       /\ now' = currentTime
       /\ animationId' = raf.handle
       /\ pendingFrames' = raf.pending
       /\ frameHandles' = raf.handle
       /\ lastFrameTime' = currentTime
       /\ heap' = s2.heap
       /\ pool' = s2.pool
       /\ particles' = s2.particles
       /\ activeEffects' = s2.activeEffects
       /\ particleIdCounter' = s2.particleIdCounter
       /\ effectIdCounter' =
             IF call.kind = "start" /\ StartCreates(call.type, call.options)
             THEN effectIdCounter + 1 ELSE effectIdCounter
       /\ updated' = up.updated
       /\ rendered' = up.updated \ updateFalse
       /\ rejected' = up.updated \cap updateFalse
       /\ frameTimes' = samples
       /\ droppedFrames' = droppedFrames
             + (IF frameCost > MAX_FRAME_TIME THEN 1 ELSE 0)
       /\ frameCount' = frameCount + 1
       /\ globalIntensity' = autoDegrade(samples, globalIntensity)
       /\ emitted' = HookCallEvents(call)
       /\ delivered' = emitAll(emitted') \o notifyListeners
       /\ UNCHANGED <<effects, canvas, isPaused, isVisible,
                      prefersReducedMotion, ctx, domListeners, canvases,
                      listenerVars>>

(***************************************************************************)
(* The record of the last call.                                            *)
(***************************************************************************)
Unobserved == lastOp' = NoOp

Observed(name, id, hit, type, options) ==
    lastOp' = [name |-> name, id |-> id, hit |-> hit, type |-> type,
               options |-> options]

ObservedStart(type, options) ==
    /\ start(type, options)
    /\ Observed("start",
                IF StartCreates(type, options) THEN effectIdCounter + 1 ELSE 0,
                StartCreates(type, options), type, options)

ObservedStop(id) ==
    /\ stop(id)
    /\ Observed("stop", id, id \in DOMAIN activeEffects, "", NoOptions)

\* The change notification, and whether sessions were running when it came.
ObservedMediaChange(matches) ==
    /\ handleMediaQueryChange(matches)
    /\ Observed("mediaChange", 0, activeEffects # <<>>, "", NoOptions)

\* The frame callback, whether it did the frame's work, and the id the
\* first particle it spawns gets.
ObservedFrame(delta, updateFalse, frameCost) ==
    /\ renderLoop(delta, updateFalse, frameCost)
    /\ Observed("tick", particleIdCounter, ~frameSkipped, "", NoOptions)

\* The frame callback in which update() of one entry called start() or
\* stop(): the call, and the id the next particle would have got.
ObservedFrameWithCall(delta, hookPid, call, updateFalse, frameCost) ==
    /\ renderLoopWithCall(delta, hookPid, call, updateFalse, frameCost)
    /\ Observed("tick", particleIdCounter, TRUE, call.kind, call.options)

\* init() with what getContext returned, whether it threw, and the number
\* of canvases the container held before the call.
ObservedInit(contextAvailable) ==
    /\ init(contextAvailable)
    /\ Observed("init", canvases, initThrows(contextAvailable),
                IF contextAvailable THEN "2d" ELSE "null", NoOptions)

\* destroy(), and whether a frame callback was pending when it was called.
ObservedDestroy ==
    /\ destroy
    /\ Observed("destroy", 0, pendingFrames # {}, "", NoOptions)


(***************************************************************************)
(* Spec: an engine whose user prefers full motion, driven by its callers   *)
(* and by the display.  The registered effect is the smallest one (sky     *)
(* lanterns, 6 particles), so that sessions reach their capacity.          *)
(***************************************************************************)
\* registerEffect calls a caller makes (src/index.ts).
Registrations == {<<"sky-lanterns", "SkyLanternsRenderer">>}

EffectTypes == {"sky-lanterns"}

OptionChoices == {NoOptions, LowOptions}

Init == EngineInit(FALSE)

Next ==
    \/ init(TRUE) /\ Unobserved
    \/ \E reg \in Registrations : registerEffect(reg[1], reg[2]) /\ Unobserved
    \/ \E type \in EffectTypes, options \in OptionChoices :
          /\ StartCreates(type, options) => effectIdCounter < MaxStarts
          /\ ObservedStart(type, options)
    \/ \E id \in HandleIds : ObservedStop(id)
    \/ stopAll /\ Unobserved
    \/ setIntensity("off") /\ Unobserved
    \/ \E delta \in FrameDeltas, updateFalse \in UpdateFalseChoices,
          frameCost \in FrameCosts :
          /\ frameCount < MaxFrames
          /\ ObservedFrame(delta, updateFalse, frameCost)

Spec == Init /\ [][Next]_vars

(***************************************************************************)
(* Properties of Spec.                                                     *)
(***************************************************************************)
\* The records the particle table holds.
LiveRefs == {particles[pid].particle : pid \in DOMAIN particles}

Owned(id) == Cardinality(activeEffects[id].particleIds)

Capacity(id) ==
    getMaxParticles(activeEffects[id].renderer, activeEffects[id].options)

\* C2: in every reachable state every running session owns at most
\* capacity(options) particle ids of its effect, after the initial spawn of
\* start() and after any number of ticks.
CapacityEnforced ==
    \A id \in DOMAIN activeEffects : Owned(id) <= Capacity(id)

\* A session that a tick has filled to its capacity and whose spawn was
\* due in the last tick.
CapacityReached ==
    /\ lastOp.name = "tick"
    /\ \E id \in DOMAIN activeEffects :
          /\ Owned(id) = Capacity(id)
          /\ Owned(id) > Capacity(id) \div 2
          /\ activeEffects[id].lastSpawnTime = now

\* C3: the keys of the particle table are the disjoint union of the
\* running sessions' id sets, and every entry names as its owner the
\* session whose set holds its id: no id in two sessions, no session id
\* missing from the table, no entry of an absent session.
TableConsistent ==
    /\ \A pid \in DOMAIN particles :
          /\ particles[pid].effectId \in DOMAIN activeEffects
          /\ pid \in activeEffects[particles[pid].effectId].particleIds
    /\ \A id \in DOMAIN activeEffects :
          activeEffects[id].particleIds \subseteq DOMAIN particles
    /\ \A a, b \in DOMAIN activeEffects :
          a # b => activeEffects[a].particleIds
                     \cap activeEffects[b].particleIds = {}

\* Two sessions with particles, after a tick that removed a particle.
TableAfterRemoval ==
    /\ lastOp.name = "tick"
    /\ Cardinality(DOMAIN activeEffects) = 2
    /\ \A id \in DOMAIN activeEffects : Owned(id) > 0
    /\ Cardinality(DOMAIN particles) < particleIdCounter

\* C4: when stop(handle) returns for a running session that owned k
\* particles, no table entry names the session, the session is gone from
\* the session map, and the pool's active count is k lower than before.
StopComplete ==
    [][(lastOp'.name = "stop" /\ lastOp'.hit) =>
          LET id == lastOp'.id IN
          /\ \A pid \in DOMAIN particles' : particles'[pid].effectId # id
          /\ id \notin DOMAIN activeEffects'
          /\ pool'.activeCount = pool.activeCount - Owned(id)]_vars

\* One of two sessions has been stopped before any frame was rendered, so
\* that it owned its initial particles.
StoppedOneOfTwo ==
    /\ lastOp.name = "stop" /\ lastOp.hit
    /\ frameCount = 0
    /\ effectIdCounter = 2
    /\ Cardinality(DOMAIN activeEffects) = 1
    /\ particles # <<>>
    /\ Cardinality(DOMAIN particles) < particleIdCounter

\* C5: stop on the handle of a session that is gone (stopped before, by
\* stop or by stopAll) releases no record, leaves the particle table, the
\* sessions and the pool as they were, and emits no stop event.
StopIdempotent ==
    [][(lastOp'.name = "stop" /\ ~lastOp'.hit /\ lastOp'.id >= 1) =>
          /\ heap' = heap
          /\ pool' = pool
          /\ particles' = particles
          /\ activeEffects' = activeEffects
          /\ emitted' = <<>>]_vars

\* stop has been called on the handle of a session that is gone while
\* another session holds particles.
StoppedAgain ==
    /\ lastOp.name = "stop" /\ ~lastOp.hit /\ lastOp.id >= 1
    /\ particles # <<>>

\* C20: in an active frame the continuous spawns come first, then update
\* and render, then the removal: update is called on every particle the
\* frame spawned and on every particle it found in the table, those it
\* then removes included; and the frame's spawn test reads the timestamp
\* the session's last spawn wrote, and writes the frame's time when the
\* session is due.
PhasesInOrder ==
    [][(lastOp'.name = "tick" /\ lastOp'.hit) =>
         LET born == particleIdCounter..(particleIdCounter' - 1) IN
         /\ born \subseteq updated'
         /\ DOMAIN particles \subseteq updated'
         /\ DOMAIN particles' \subseteq updated'
         /\ updated' \subseteq DOMAIN particles \cup born
         /\ \A id \in DOMAIN activeEffects :
               activeEffects'[id].lastSpawnTime =
                  IF spawnDue(IntensityOf(activeEffects[id].options),
                              now' - activeEffects[id].lastSpawnTime)
                  THEN now' ELSE activeEffects[id].lastSpawnTime]_vars

\* A frame has spawned a particle, called update on it and on an older
\* one, and removed the older one.
SpawnedUpdatedRemoved ==
    /\ lastOp.name = "tick" /\ lastOp.hit
    /\ lastOp.id < particleIdCounter
    /\ lastOp.id \in updated \cap DOMAIN particles
    /\ \E pid \in updated : pid < lastOp.id /\ pid \notin DOMAIN particles

(***************************************************************************)
(* SpecPool: a ParticlePool on its own, called in every order by a caller  *)
(* that writes to the records it has been handed, also after giving them   *)
(* back, and that releases records more often than it acquired them.       *)
(***************************************************************************)
PoolStep(r) ==
    /\ heap' = r.heap
    /\ pool' = r.pool
    /\ UNCHANGED engineVars

prewarm(count) == PoolStep(PoolPrewarm(heap, pool, count))

acquire == PoolStep(PoolAcquire(heap, pool))

release(r) == PoolStep(PoolRelease(heap, pool, r))

clear ==
    /\ pool' = PoolClear(pool)
    /\ UNCHANGED <<heap, engineVars>>

\* The caller assigns the fields of a record it holds a reference to.
CallerWrites(r, written) ==
    /\ heap[r] # written
    /\ heap' = [heap EXCEPT ![r] = written]
    /\ UNCHANGED <<pool, engineVars>>

\* What acquire() is about to hand out: a record made on the spot, or the
\* last pooled one, which is as release left it or has been written since.
NextAcquired ==
    IF pool.free = <<>> THEN "new"
    ELSE IF heap[pool.free[Len(pool.free)]] = createParticle THEN "clean"
    ELSE "dirty"

InitPool ==
    \E maxSize \in 0..MaxPoolSize :
        LET np == NewPool(<<>>, maxSize) IN
        /\ heap = np.heap
        /\ pool = np.pool
        /\ EngineFields(FALSE)

NextPool ==
    \/ \E count \in 0..MaxPrewarm :
          /\ Len(heap) + count <= MaxRecords
          /\ prewarm(count)
          /\ Observed("prewarm", count, TRUE, "", NoOptions)
    \/ /\ pool.free # <<>> \/ Len(heap) < MaxRecords
       /\ acquire
       /\ Observed("acquire", PoolAcquire(heap, pool).ref,
                   pool.free # <<>>, NextAcquired, NoOptions)
    \/ \E r \in DOMAIN heap :
          /\ release(r)
          /\ Observed("release", r, pool.activeCount > 0, "", NoOptions)
    \/ clear /\ Observed("clear", 0, TRUE, "", NoOptions)
    \/ \E r \in DOMAIN heap, written \in WrittenParticles :
          CallerWrites(r, written) /\ Unobserved

SpecPool == InitPool /\ [][NextPool]_vars

\* C8: whatever prewarm, acquire and release calls came before, and whatever
\* the caller wrote into the records, the record acquire() returns has every
\* field at its default: the numeric fields 0, opacity 1, color '#FFFFFF',
\* maxLife 100, phase 'active', meta empty.
AcquiredIsDefault ==
    lastOp.name = "acquire" =>
        /\ \A f \in {"x", "y", "vx", "vy", "ax", "ay", "size", "rotation",
                      "rotationSpeed", "life"} : heap[lastOp.id][f] = 0
        /\ heap[lastOp.id].opacity = 1
        /\ heap[lastOp.id].color = "#FFFFFF"
        /\ heap[lastOp.id].maxLife = 100
        /\ heap[lastOp.id].phase = "active"
        /\ heap[lastOp.id].meta = {}
        /\ DOMAIN heap[lastOp.id] = FieldNames

\* acquire() has handed out a pooled record that held a caller's values.
AcquiredWasDirty ==
    lastOp.name = "acquire" /\ lastOp.hit /\ lastOp.type = "dirty"

\* C9: whatever acquire, release, prewarm and clear calls came before, more
\* releases than acquires included, the pool's active count is not negative.
ActiveCountNotNegative == getActiveCount >= 0

\* release() has been called on a pool whose active count was already 0.
ReleasedAtZero ==
    lastOp.name = "release" /\ ~lastOp.hit /\ getActiveCount = 0

\* C22: whatever prewarm, acquire, release and clear calls came before, the
\* free list holds at most maxSize records; and a release made when it
\* holds maxSize records leaves it as it was.
FreeListBounded ==
    /\ [](getPoolSize <= pool.maxSize)
    /\ [][(lastOp'.name = "release" /\ Len(pool.free) = pool.maxSize) =>
             pool'.free = pool.free]_vars

(***************************************************************************)
(* SpecCeiling: the same engine with the largest effect registered         *)
(* (confetti, 100 particles), so that two sessions fill the particle       *)
(* table.                                                                  *)
(***************************************************************************)
CeilingOptions == {NoOptions, LowOptions}

NextCeiling ==
    \/ init(TRUE) /\ Unobserved
    \/ registerEffect("confetti", "ConfettiRenderer") /\ Unobserved
    \/ \E options \in CeilingOptions :
          /\ StartCreates("confetti", options) => effectIdCounter < MaxStarts
          /\ ObservedStart("confetti", options)
    \/ \E id \in HandleIds : stop(id) /\ Unobserved
    \/ stopAll /\ Unobserved
    \/ setIntensity("off") /\ Unobserved
    \/ \E delta \in FrameDeltas, updateFalse \in UpdateFalseChoices,
          frameCost \in FrameCosts :
          /\ frameCount < MaxFrames
          /\ ObservedFrame(delta, updateFalse, frameCost)

SpecCeiling == Init /\ [][NextCeiling]_vars

\* C1: after any sequence of registerEffect, start, stop, stopAll,
\* setIntensity and tick the particle table holds at most 100 entries: a
\* spawn attempted at 100 entries is refused, also for a session below its
\* own capacity.
GlobalCeiling == Cardinality(DOMAIN particles) <= MAX_PARTICLES_GLOBAL

\* The only frame so far found the table full (100 entries, 100 particles
\* ever made) and a session below its capacity whose spawn was due.
CeilingRefusedDueSpawn ==
    /\ lastOp.name = "tick" /\ lastOp.hit
    /\ frameCount = 1
    /\ Cardinality(DOMAIN particles) = MAX_PARTICLES_GLOBAL
    /\ particleIdCounter = MAX_PARTICLES_GLOBAL
    /\ \E id \in DOMAIN activeEffects :
          /\ Owned(id) < Capacity(id)
          /\ activeEffects[id].lastSpawnTime = now

\* C21: the engine never makes its pool create a record: the records are
\* the 100 the constructor prewarmed, each of them either in the free list
\* or in the particle table, so the free list is not empty whenever the
\* table has room for a spawn; and the pool's counter is the table's size.
NeverManufactures ==
    /\ Len(heap) = Min(100, EnginePoolSize)
    /\ Len(pool.free) + Cardinality(DOMAIN particles) = Len(heap)
    /\ pool.activeCount = Cardinality(DOMAIN particles)
    /\ Cardinality(DOMAIN particles) < MAX_PARTICLES_GLOBAL
          => Len(pool.free) > 0
    /\ {pool.free[i] : i \in 1..Len(pool.free)} \cap LiveRefs = {}

\* The particle table holds every record and the free list is empty.
FreeListDrained ==
    /\ Len(pool.free) = 0
    /\ Cardinality(LiveRefs) = 100
    /\ Len(heap) = 100

\* C6 as claimed: when start(type, options) returns for a registered type
\* with reduced motion inactive, the new session owns exactly
\* floor(capacity(options) / 2) particles, whatever else is running.
StartSpawnsHalf ==
    [][(lastOp'.name = "start" /\ lastOp'.hit) =>
          Cardinality(activeEffects'[lastOp'.id].particleIds)
            = getMaxParticles(effects[lastOp'.type], lastOp'.options) \div 2
      ]_vars

\* C6 as amended: the new session owns floor(capacity(options) / 2)
\* particles, or as many as the particle table had room for below 100
\* entries when start was called, if that is fewer.
StartSpawnsHalfOrRoom ==
    [][(lastOp'.name = "start" /\ lastOp'.hit) =>
          Cardinality(activeEffects'[lastOp'.id].particleIds)
            = Min(getMaxParticles(effects[lastOp'.type], lastOp'.options)
                    \div 2,
                  Max(0, MAX_PARTICLES_GLOBAL - Cardinality(DOMAIN particles)))
      ]_vars

\* start() has created a second session that got some, but fewer than
\* half its capacity, for want of room in the table.
StartedShortOfHalf ==
    /\ lastOp.name = "start" /\ lastOp.hit
    /\ lastOp.id \in DOMAIN activeEffects
    /\ Cardinality(DOMAIN activeEffects) = 2
    /\ Owned(lastOp.id) > 0
    /\ Owned(lastOp.id) < Capacity(lastOp.id) \div 2

(***************************************************************************)
(* SpecMotion: the engine of a user whose reduced-motion preference is     *)
(* set or not at construction and changes while effects run.               *)
(***************************************************************************)
InitMotion == \E reduced \in BOOLEAN : EngineInit(reduced)

NextMotion ==
    \/ \E reg \in Registrations : registerEffect(reg[1], reg[2]) /\ Unobserved
    \/ \E type \in EffectTypes, options \in OptionChoices :
          /\ StartCreates(type, options) => effectIdCounter < MaxStarts
          /\ ObservedStart(type, options)
    \/ \E id \in HandleIds : ObservedStop(id)
    \/ \E matches \in BOOLEAN : ObservedMediaChange(matches)

SpecMotion == InitMotion /\ [][NextMotion]_vars

\* C10: with the reduced-motion signal true and disableOnReducedMotion not
\* set to false, start() creates no session, spawns no particle, emits no
\* event, leaves the particle table and the pool as they were and returns
\* the no-op handle; and stop() on that handle, whenever called, changes
\* nothing.
ReducedMotionSuppresses ==
    [][/\ (/\ lastOp'.name = "start"
           /\ prefersReducedMotion
           /\ lastOp'.options.disableOnReducedMotion # "false") =>
             /\ lastOp'.id = 0
             /\ activeEffects' = activeEffects
             /\ particles' = particles
             /\ particleIdCounter' = particleIdCounter
             /\ pool' = pool
             /\ heap' = heap
             /\ emitted' = <<>>
       /\ (lastOp'.name = "stop" /\ lastOp'.id = 0) =>
             /\ activeEffects' = activeEffects
             /\ particles' = particles
             /\ pool' = pool
             /\ heap' = heap
             /\ emitted' = <<>>]_vars

\* start() of a registered effect has been suppressed while a session that
\* opted out of the suppression is running.
StartWasSuppressed ==
    /\ lastOp.name = "start" /\ ~lastOp.hit
    /\ lastOp.type \in DOMAIN effects
    /\ prefersReducedMotion
    /\ lastOp.options.disableOnReducedMotion # "false"
    /\ particles # <<>>

\* C11: when the reduced-motion signal flips from false to true, then once
\* the change notification has been delivered there is no running session,
\* the particle table is empty and every record that was live is back in
\* the pool (none is counted active); and while the signal is true every
\* session that exists was started with disableOnReducedMotion: false.
ReducedMotionStopsAll ==
    /\ [](prefersReducedMotion =>
            \A id \in DOMAIN activeEffects :
               activeEffects[id].options.disableOnReducedMotion = "false")
    /\ [][(~prefersReducedMotion /\ prefersReducedMotion') =>
             /\ activeEffects' = <<>>
             /\ particles' = <<>>
             /\ pool'.activeCount = 0
             /\ \A r \in LiveRefs :
                   /\ \E i \in 1..Len(pool'.free) : pool'.free[i] = r
                   /\ heap'[r] = createParticle]_vars

\* The signal has just turned true while sessions with particles were
\* running.
ReducedMotionStoppedSessions ==
    /\ lastOp.name = "mediaChange" /\ lastOp.hit
    /\ prefersReducedMotion
    /\ pool.activeCount = 0
    /\ Len(pool.free) = 100

(***************************************************************************)
(* SpecPacing: sessions of the snow effect (80 particles) are started      *)
(* before the first frame, and the display then calls the frame callback   *)
(* every 16.67 ms; no particle dies.  The clock is 0 at the start of each  *)
(* session, so that [0, now] is a window of the session's life.            *)
(***************************************************************************)
PacingFrames == 140    \* frames rendered in one run of SpecPacing

PacingOptions == {NoOptions, HighOptions}

NextPacing ==
    \/ init(TRUE) /\ Unobserved
    \/ registerEffect("snow", "SnowRenderer") /\ Unobserved
    \/ \E options \in PacingOptions :
          /\ frameCount = 0
          /\ StartCreates("snow", options) => effectIdCounter < MaxStarts
          /\ ObservedStart("snow", options)
    \/ \E frameCost \in FrameCosts :
          /\ frameCount < PacingFrames
          /\ ObservedFrame(50, {}, frameCost)

SpecPacing == Init /\ [][NextPacing]_vars

\* C7: a session with spawn rate R per second that stays below its capacity
\* and below the global ceiling, in an engine ticking once per display
\* frame, has had within 1 of floor(T * R) continuous spawns after T
\* seconds, whatever other sessions are running.  (now \div the spawn
\* interval is floor(T * R); the continuous spawns are the particles the
\* session owns beyond its initial half capacity.)
SpawnPacing ==
    \A id \in DOMAIN activeEffects :
        LET level == IntensityOf(activeEffects[id].options)
            spawns == Owned(id) - Capacity(id) \div 2
            expected == now \div SpawnInterval(level)
        IN (/\ Owned(id) < Capacity(id)
            /\ Cardinality(DOMAIN particles) < MAX_PARTICLES_GLOBAL) =>
              (spawns - expected <= 1 /\ expected - spawns <= 1)

(***************************************************************************)
(* SpecDegrade: sessions of the sky-lanterns effect run while frames cost  *)
(* more than the 16 ms budget or less; the caller sets the global          *)
(* intensity to 'off', 'medium' or 'high', never to 'low', so that a       *)
(* global intensity of 'low' is the frame callback's doing.                *)
(***************************************************************************)
\* Time between two frame callbacks: the 'medium' spawn interval (250 ms).
DegradeDeltas == {750}

\* Frame times endFrame measures, in ms: within the budget, and critical.
DegradeCosts == {4, 40}

\* The levels the caller passes to setIntensity().
DegradeLevels == {"off", "medium", "high"}

\* setIntensity(level), and whether particles were live when it was called.
ObservedSetIntensity(level) ==
    /\ setIntensity(level)
    /\ Observed("setIntensity", 0, particles # <<>>, level, NoOptions)

\* stopAll(), and whether particles were live when it was called.
ObservedStopAll ==
    /\ stopAll
    /\ Observed("stopAll", 0, particles # <<>>, "", NoOptions)

NextDegrade ==
    \/ init(TRUE) /\ Unobserved
    \/ \E reg \in Registrations : registerEffect(reg[1], reg[2]) /\ Unobserved
    \/ \E type \in EffectTypes :
          /\ StartCreates(type, NoOptions) => effectIdCounter < MaxStarts
          /\ ObservedStart(type, NoOptions)
    \/ \E level \in DegradeLevels : ObservedSetIntensity(level)
    \/ ObservedStopAll
    \/ \E delta \in DegradeDeltas, frameCost \in DegradeCosts :
          /\ frameCount < MaxFrames
          /\ ObservedFrame(delta, {}, frameCost)

SpecDegrade == Init /\ [][NextDegrade]_vars

\* IntensityLevel in the order off < low < medium < high.
IntensityRank(level) ==
    CASE level = "off" -> 0
      [] level = "low" -> 1
      [] level = "medium" -> 2
      [] level = "high" -> 3

\* C12: a frame callback never raises the global intensity: after it the
\* level is the one before it or a lower one in the order
\* off < low < medium < high; and a level of 'low' is left alone.
TickNeverRaises ==
    [][lastOp'.name = "tick" =>
         /\ IntensityRank(globalIntensity') <= IntensityRank(globalIntensity)
         /\ globalIntensity = "low" => globalIntensity' = "low"]_vars

\* C13: once the frame callback has downgraded the global intensity to
\* 'low', no session holds more particles than its effect's capacity at
\* 'low', and a frame spawns for a session only when the 'low' spawn
\* interval has passed since the session's last spawn.
DegradedRunsAtLow ==
    /\ [](globalIntensity = "low" =>
            \A id \in DOMAIN activeEffects :
               Owned(id) <= getMaxParticles(activeEffects[id].renderer,
                                            LowOptions))
    /\ [][(lastOp'.name = "tick" /\ globalIntensity = "low") =>
             \A id \in DOMAIN activeEffects :
                (\E pid \in activeEffects'[id].particleIds :
                    pid >= particleIdCounter)
                  => now' - activeEffects[id].lastSpawnTime
                        >= SpawnInterval("low")]_vars

\* C23: after stopAll(), called directly or by setIntensity('off'), the
\* session map and the particle table are empty, every record that was
\* live is in the free list once (the free list has grown by their number)
\* and the pool's active count is 0; setIntensity with another level
\* leaves the sessions, the table and the pool as they were.
StopAllReleasesAll ==
    [][/\ (\/ lastOp'.name = "stopAll"
           \/ lastOp'.name = "setIntensity" /\ lastOp'.type = "off") =>
             /\ activeEffects' = <<>>
             /\ particles' = <<>>
             /\ pool'.activeCount = 0
             /\ Len(pool'.free) = Len(pool.free) + Cardinality(LiveRefs)
             /\ \A r \in LiveRefs :
                   Cardinality({i \in 1..Len(pool'.free) :
                                   pool'.free[i] = r}) = 1
       /\ (lastOp'.name = "setIntensity" /\ lastOp'.type # "off") =>
             /\ globalIntensity' = lastOp'.type
             /\ activeEffects' = activeEffects
             /\ particles' = particles
             /\ pool' = pool
             /\ heap' = heap]_vars

\* setIntensity('off') has been called while two sessions held particles.
IntensityOffStoppedSessions ==
    /\ lastOp.name = "setIntensity" /\ lastOp.type = "off" /\ lastOp.hit
    /\ effectIdCounter = 2
    /\ particles = <<>>
    /\ pool.activeCount = 0

(***************************************************************************)
(* SpecLifecycle: an engine that is initialized (with or without a 2D      *)
(* context to be had), paused, hidden, destroyed and initialized again     *)
(* while sessions of the sky-lanterns effect run at 'low' intensity, and   *)
(* whose caller also starts an effect nobody registered.                   *)
(***************************************************************************)
MaxHandles == 3        \* frame callbacks requested in one run
MaxSessions == 1       \* sessions created in one run of SpecLifecycle

\* The types passed to start(): one that gets registered, one that never is.
LifecycleTypes == {"sky-lanterns", "gulaal"}

\* Time between two frame callbacks: the 'low' spawn interval.
LifecycleDeltas == {2000}

NextLifecycle ==
    \/ \E contextAvailable \in BOOLEAN :
          /\ frameHandles < MaxHandles
          /\ ObservedInit(contextAvailable)
    \/ ObservedDestroy
    \/ \E reg \in Registrations : registerEffect(reg[1], reg[2]) /\ Unobserved
    \/ \E type \in LifecycleTypes :
          /\ StartCreates(type, LowOptions) => effectIdCounter < MaxSessions
          /\ ObservedStart(type, LowOptions)
    \/ \E id \in HandleIds : ObservedStop(id)
    \/ \E paused \in BOOLEAN : setPaused(paused) /\ Unobserved
    \/ \E hidden \in BOOLEAN : handleVisibilityChange(hidden) /\ Unobserved
    \/ \E delta \in LifecycleDeltas, frameCost \in FrameCosts :
          /\ frameHandles < MaxHandles
          /\ ObservedFrame(delta, {}, frameCost)

SpecLifecycle == Init /\ [][NextLifecycle]_vars

\* C14: init() on an engine that holds a canvas appends no second canvas,
\* attaches no listener, requests no frame callback, and leaves the
\* sessions, the particle table and the pool as they were.
InitIdempotent ==
    [][(lastOp'.name = "init" /\ canvas) =>
         /\ canvases' = canvases
         /\ domListeners' = domListeners
         /\ pendingFrames' = pendingFrames
         /\ animationId' = animationId
         /\ frameHandles' = frameHandles
         /\ canvas' /\ ctx' = ctx
         /\ activeEffects' = activeEffects
         /\ particles' = particles
         /\ pool' = pool
         /\ heap' = heap]_vars

\* init() has been called on an initialized engine whose session holds a
\* particle.
InitCalledTwice ==
    /\ lastOp.name = "init" /\ lastOp.id = 1
    /\ canvases = 1 /\ ctx
    /\ Cardinality(pendingFrames) = 1
    /\ particles # <<>>

\* C15: an init() that fails for want of a 2D context throws, appends no
\* canvas and requests no frame callback; and an init() made with a context
\* to be had, on an engine that has no context, appends the canvas and
\* requests the first frame callback.
FailedInitCanBeRetried ==
    [][/\ (lastOp'.name = "init" /\ ~canvas /\ lastOp'.type = "null") =>
             /\ lastOp'.hit
             /\ ~ctx'
             /\ canvases' = canvases
             /\ pendingFrames' = pendingFrames
       /\ (lastOp'.name = "init" /\ ~ctx /\ lastOp'.type = "2d") =>
             /\ ctx'
             /\ canvases' = canvases + 1
             /\ pendingFrames' # {}]_vars

\* C16: destroy() leaves no frame callback pending, whether or not frames
\* have run since init, and leaves the session map and the particle table
\* empty; no frame callback is pending while the engine has no canvas, and
\* the frame callback runs only on an engine that has one.
DestroyHalts ==
    /\ [](~canvas => pendingFrames = {})
    /\ [][/\ lastOp'.name = "destroy" =>
                /\ pendingFrames' = {}
                /\ animationId' = 0
                /\ activeEffects' = <<>>
                /\ particles' = <<>>
          /\ lastOp'.name = "tick" => canvas]_vars

\* destroy() has been called between two frames, with a frame callback
\* pending, on an engine that had rendered a frame.
DestroyedBetweenFrames ==
    /\ lastOp.name = "destroy" /\ lastOp.hit
    /\ frameCount > 0
    /\ ~canvas

\* C17: start() of a type nobody registered creates no session, spawns no
\* particle, emits no event, leaves the particle table and the pool as they
\* were and returns the no-op handle, whose stop() changes nothing; the
\* pending frame callback stays pending.
UnregisteredStartFailsSoft ==
    [][/\ (lastOp'.name = "start" /\ lastOp'.type \notin DOMAIN effects) =>
             /\ lastOp'.id = 0
             /\ effectIdCounter' = effectIdCounter
             /\ activeEffects' = activeEffects
             /\ particles' = particles
             /\ particleIdCounter' = particleIdCounter
             /\ pool' = pool
             /\ heap' = heap
             /\ emitted' = <<>>
             /\ pendingFrames' = pendingFrames
       /\ (lastOp'.name = "stop" /\ lastOp'.id = 0) =>
             /\ activeEffects' = activeEffects
             /\ particles' = particles
             /\ pool' = pool
             /\ heap' = heap
             /\ pendingFrames' = pendingFrames]_vars

\* start() of an unregistered type has returned the no-op handle while a
\* session of a registered type runs on an initialized engine.
UnregisteredStartRefused ==
    /\ lastOp.name = "start" /\ ~lastOp.hit
    /\ lastOp.type \notin DOMAIN effects
    /\ particles # <<>>
    /\ pendingFrames # {}

\* C19: a frame callback that runs while the engine is paused or hidden
\* changes nothing in the particle table, the sessions, the pool or the
\* monitor's samples, and requests exactly one frame callback: after it,
\* one callback is pending, and it is a new one.
IdleFrameChangesNothing ==
    [][(lastOp'.name = "tick" /\ (isPaused \/ ~isVisible)) =>
         /\ particles' = particles
         /\ activeEffects' = activeEffects
         /\ particleIdCounter' = particleIdCounter
         /\ pool' = pool
         /\ heap' = heap
         /\ frameTimes' = frameTimes
         /\ frameCount' = frameCount
         /\ droppedFrames' = droppedFrames
         /\ Cardinality(pendingFrames' \ pendingFrames) = 1
         /\ Cardinality(pendingFrames') = 1
         /\ animationId' \in pendingFrames']_vars

\* A frame callback has run on a hidden or paused engine whose session was
\* due to spawn.
IdleFrameRan ==
    /\ lastOp.name = "tick" /\ ~lastOp.hit
    /\ isPaused \/ ~isVisible
    /\ \E id \in DOMAIN activeEffects :
          /\ Owned(id) < Capacity(id)
          /\ now - activeEffects[id].lastSpawnTime >= SpawnInterval("low")

(***************************************************************************)
(* SpecListeners: callers subscribe callbacks, some of which throw, to the *)
(* engine's events and to its performance monitor, while sessions of the   *)
(* sky-lanterns effect are started and stopped, bursts are fired and       *)
(* frames are rendered.                                                    *)
(***************************************************************************)
MaxListeners == 2      \* callbacks subscribed in one run
MaxEmitters == 1       \* sessions created in one run of SpecListeners
MaxTicks == 1          \* frames rendered in one run of SpecListeners

\* The events callers subscribe to: the three the engine emits, and the
\* 'performance' event of the README.
ListenerEvents == {"start", "stop", "burst", "performance"}

SortedEvents == <<"burst", "performance", "start", "stop">>

\* The callbacks subscribed so far.
ListenerCount ==
    Len(perfListeners)
      + SumSeq([i \in 1..Len(SortedEvents) |->
                  IF SortedEvents[i] \in DOMAIN eventListeners
                  THEN Len(eventListeners[SortedEvents[i]]) ELSE 0])

ObservedBurst(type) ==
    /\ burst(type)
    /\ Observed("burst", 0, TRUE, type, NoOptions)

NextListeners ==
    \/ \E event \in ListenerEvents, callback \in Callbacks :
          /\ ListenerCount < MaxListeners
          /\ on(event, callback) /\ Unobserved
    \/ \E callback \in Callbacks :
          /\ ListenerCount < MaxListeners
          /\ subscribe(callback) /\ Unobserved
    \/ init(TRUE) /\ Unobserved
    \/ \E reg \in Registrations : registerEffect(reg[1], reg[2]) /\ Unobserved
    \/ \E type \in EffectTypes :
          /\ StartCreates(type, LowOptions) => effectIdCounter < MaxEmitters
          /\ ObservedStart(type, LowOptions)
    \/ \E id \in HandleIds : ObservedStop(id)
    \/ ObservedBurst("confetti")
    \/ \E delta \in LifecycleDeltas, frameCost \in FrameCosts :
          /\ frameCount < MaxTicks
          /\ ObservedFrame(delta, {}, frameCost)

SpecListeners == Init /\ [][NextListeners]_vars

\* The callback is among the invocations, for the event.
Invoked(log, callback, event) ==
    \E j \in 1..Len(log) :
       log[j] = [listener |-> callback, event |-> event]

\* C18: whatever the callbacks do, start, stop and burst call every callback
\* subscribed to the event they emit, and an active frame calls every
\* performance observer; and the operation makes its state change: start
\* has created its session with the pre-spawned particles, stop has removed
\* the session, the frame has counted itself and requested the next one.
ListenerFaultsIsolated ==
    [][/\ \A i \in 1..Len(emitted') :
            emitted'[i].event \in DOMAIN eventListeners =>
               \A k \in 1..Len(eventListeners[emitted'[i].event]) :
                  Invoked(delivered', eventListeners[emitted'[i].event][k],
                          emitted'[i].event)
       /\ (lastOp'.name = "tick" /\ lastOp'.hit) =>
             /\ \A k \in 1..Len(perfListeners) :
                   Invoked(delivered', perfListeners[k], "metrics")
             /\ frameCount' = frameCount + 1
             /\ Cardinality(pendingFrames') = 1
       /\ (lastOp'.name = "start" /\ lastOp'.hit) =>
             /\ emitted' # <<>>
             /\ lastOp'.id \in DOMAIN activeEffects'
             /\ Cardinality(activeEffects'[lastOp'.id].particleIds) =
                   getMaxParticles(effects[lastOp'.type], lastOp'.options)
                      \div 2
       /\ (lastOp'.name = "stop" /\ lastOp'.hit) =>
             /\ emitted' # <<>>
             /\ lastOp'.id \notin DOMAIN activeEffects'
       /\ lastOp'.name = "burst" => emitted' # <<>>]_vars

\* start() has created a session and emitted 'start' to two callbacks, the
\* first of which throws.
ThrowingListenerCalledFirst ==
    /\ lastOp.name = "start" /\ lastOp.hit
    /\ "start" \in DOMAIN eventListeners
    /\ eventListeners["start"] = <<"throws", "logs">>
    /\ Len(delivered) = 2
    /\ lastOp.id \in DOMAIN activeEffects

\* C24: every active frame calls each callback subscribed with
\* on('performance', callback).
PerformanceEventDelivered ==
    [][(/\ lastOp'.name = "tick" /\ lastOp'.hit
        /\ "performance" \in DOMAIN eventListeners) =>
          \A k \in 1..Len(eventListeners["performance"]) :
             Invoked(delivered', eventListeners["performance"][k],
                     "performance")]_vars

(***************************************************************************)
(* SpecConverge: one session of the sky-lanterns effect (capacity 6, 2 at  *)
(* 'low') is started on an initialized engine, and the display keeps       *)
(* calling the frame callback; no particle dies.  Weak fairness of the     *)
(* frame step says that the display does fire a frame that the render loop *)
(* has requested.                                                          *)
(***************************************************************************)
ConvergeFrames == 5    \* frames rendered in one run of SpecConverge

\* Time between two frame callbacks: 250 ms and 666.67 ms.
ConvergeDeltas == {750, 2000}

ConvergeOptions == {NoOptions, LowOptions, HighOptions}

\* The display fires the requested frame of a running session.
TickConverge ==
    \E delta \in ConvergeDeltas, frameCost \in FrameCosts :
        /\ activeEffects # <<>>
        /\ frameCount < ConvergeFrames
        /\ ObservedFrame(delta, {}, frameCost)

NextConverge ==
    \/ init(TRUE) /\ Unobserved
    \/ \E reg \in Registrations : registerEffect(reg[1], reg[2]) /\ Unobserved
    \/ \E type \in EffectTypes, options \in ConvergeOptions :
          /\ canvas
          /\ effectIdCounter = 0
          /\ ObservedStart(type, options)
    \/ TickConverge

\* TickConverge seen through the frame counter: it is the only step that
\* changes frameCount, and it can be taken exactly when a frame is pending
\* for a running session and is not skipped.
FrameFires ==
    /\ activeEffects # <<>>
    /\ frameCount < ConvergeFrames
    /\ pendingFrames # {}
    /\ ~frameSkipped
    /\ frameCount' = frameCount + 1

SpecConverge ==
    Init /\ [][NextConverge]_vars /\ WF_frameCount(FrameFires)

\* C25: a single session whose particles all survive comes to own exactly
\* its capacity and stays there; and once it owns its capacity a frame
\* spawns nothing more for it.
ConvergesToCapacity ==
    /\ (activeEffects # <<>>) ~>
          [](/\ activeEffects # <<>>
             /\ \A id \in DOMAIN activeEffects : Owned(id) = Capacity(id))
    /\ [][(/\ lastOp'.name = "tick"
           /\ \A id \in DOMAIN activeEffects : Owned(id) = Capacity(id)) =>
             /\ particleIdCounter' = particleIdCounter
             /\ particles' = particles
             /\ \A id \in DOMAIN activeEffects :
                   activeEffects'[id].particleIds
                      = activeEffects[id].particleIds]_vars

\* A frame found the session at its capacity and due to spawn, and spawned
\* nothing.
SpawnRefusedAtCapacity ==
    /\ lastOp.name = "tick" /\ lastOp.hit
    /\ lastOp.id = particleIdCounter
    /\ \E id \in DOMAIN activeEffects :
          /\ Owned(id) = Capacity(id)
          /\ Owned(id) = 6
          /\ activeEffects[id].lastSpawnTime = now

(***************************************************************************)
(* SpecReentrant: sessions of the sky-lanterns effect on an initialized    *)
(* engine, whose renderer's update() may call start() or stop() on the     *)
(* engine in the middle of a frame.                                        *)
(***************************************************************************)
ReentrantStarts == 2    \* sessions created in one run of SpecReentrant
ReentrantFrames == 2    \* frames rendered in one run of SpecReentrant

ReentrantDeltas == {750}

NextReentrant ==
    \/ init(TRUE) /\ Unobserved
    \/ \E reg \in Registrations : registerEffect(reg[1], reg[2]) /\ Unobserved
    \/ \E type \in EffectTypes :
          /\ canvas
          /\ effectIdCounter < ReentrantStarts
          /\ ObservedStart(type, NoOptions)
    \/ \E id \in DOMAIN activeEffects : ObservedStop(id)
    \/ \E delta \in ReentrantDeltas, frameCost \in FrameCosts :
          /\ frameCount < ReentrantFrames
          /\ ObservedFrame(delta, {}, frameCost)
    \/ \E delta \in ReentrantDeltas, frameCost \in FrameCosts,
          hookPid \in 0..particleIdCounter, call \in HookCalls :
          /\ frameCount < ReentrantFrames
          /\ effectIdCounter < ReentrantStarts + 1
          /\ ObservedFrameWithCall(delta, hookPid, call, {}, frameCost)

SpecReentrant == Init /\ [][NextReentrant]_vars

\* C26: in a frame whose update phase calls start() or stop(), update is
\* called on exactly the particles that were in the table when the phase
\* began (after the frame's spawning).
UpdateIteratesSnapshot ==
    [][(lastOp'.name = "tick" /\ lastOp'.type \in {"start", "stop"}) =>
          updated' = DOMAIN SpawnPhase(EngineState,
                                       SortedSeq(DOMAIN activeEffects),
                                       now').particles]_vars

\* C27 (checked in Spec): in an active frame a particle whose update
\* returns false is not rendered, and at the end of the frame it is in no
\* session's id set and not in the table, and its record is in the free
\* list once; a particle whose update returns true is rendered and stays
\* live in its session.  The pool's active count drops by the number
\* reclaimed, and if every update returned false every session owns 0.
FalseUpdateReclaims ==
    [][(lastOp'.name = "tick" /\ lastOp'.hit) =>
        LET spawned == particleIdCounter' - particleIdCounter IN
        /\ rendered' = updated' \ rejected'
        /\ \A pid \in rejected' :
              /\ pid \notin DOMAIN particles'
              /\ \A id \in DOMAIN activeEffects' :
                    pid \notin activeEffects'[id].particleIds
              /\ pid \in DOMAIN particles =>
                    Cardinality({i \in 1..Len(pool'.free) :
                        pool'.free[i] = particles[pid].particle}) = 1
        /\ \A pid \in rendered' :
              /\ pid \in DOMAIN particles'
              /\ pid \in activeEffects'[particles'[pid].effectId].particleIds
        /\ pool'.activeCount
              = pool.activeCount + spawned - Cardinality(rejected')
        /\ Len(pool'.free)
              = Len(pool.free) - spawned + Cardinality(rejected')
        /\ Len(heap') = Len(heap)
        /\ rejected' = updated' =>
              /\ particles' = <<>>
              /\ \A id \in DOMAIN activeEffects' :
                    activeEffects'[id].particleIds = {}]_vars

\* A frame in which update returned false for one particle and true for
\* others.
SomeReclaimedSomeRendered ==
    /\ lastOp.name = "tick" /\ lastOp.hit
    /\ rejected # {}
    /\ rendered # {}
    /\ pool.activeCount = Cardinality(DOMAIN particles)

\* C28 as claimed (checked in SpecConverge): a frame sets a session's
\* lastSpawnTime only if it spawned a particle for that session; a refused
\* spawn leaves it unchanged.
StampedOnlyOnSpawn ==
    [][(lastOp'.name = "tick" /\ lastOp'.hit) =>
          \A id \in DOMAIN activeEffects :
             activeEffects'[id].lastSpawnTime # activeEffects[id].lastSpawnTime
               => activeEffects'[id].particleIds
                     # activeEffects[id].particleIds]_vars

\* C28 as the code has it: a frame sets a session's lastSpawnTime to the
\* current time exactly when the session's interval has elapsed, whether the
\* particle was spawned or the spawn was refused; otherwise it leaves it
\* unchanged.
StampedWhenDue ==
    [][(lastOp'.name = "tick" /\ lastOp'.hit) =>
          \A id \in DOMAIN activeEffects :
             activeEffects'[id].lastSpawnTime =
                IF spawnDue(IntensityOf(activeEffects[id].options),
                            now' - activeEffects[id].lastSpawnTime)
                THEN now'
                ELSE activeEffects[id].lastSpawnTime]_vars

\* A frame found a 'low' session at its capacity of 2 with the interval
\* elapsed, spawned nothing and stamped the session.
RefusedSpawnStamped ==
    /\ lastOp.name = "tick" /\ lastOp.hit
    /\ lastOp.id = particleIdCounter
    /\ \E id \in DOMAIN activeEffects :
          /\ IntensityOf(activeEffects[id].options) = "low"
          /\ Owned(id) = Capacity(id)
          /\ activeEffects[id].lastSpawnTime = now

\* C29 (checked in SpecConverge): a frame spawns at most one particle for a
\* session however long ago its last spawn was, and it attempts a spawn for
\* a session (which stamps it) only when a full interval has passed since
\* the session's last attempt, refused or not.
RefusedSpawnsNotQueued ==
    [][(lastOp'.name = "tick" /\ lastOp'.hit) =>
          /\ particleIdCounter' - particleIdCounter
                <= Cardinality(DOMAIN activeEffects)
          /\ \A id \in DOMAIN activeEffects :
                /\ Cardinality(activeEffects'[id].particleIds
                                 \ activeEffects[id].particleIds) <= 1
                /\ activeEffects'[id].lastSpawnTime
                      # activeEffects[id].lastSpawnTime =>
                     now' - activeEffects[id].lastSpawnTime
                        >= SpawnInterval(IntensityOf(
                                            activeEffects[id].options))
                /\ (/\ Owned(id) = Capacity(id)
                    /\ activeEffects[id].lastSpawnTime = now
                    /\ now' - now
                         < SpawnInterval(IntensityOf(
                                            activeEffects[id].options))) =>
                     activeEffects'[id] = activeEffects[id]]_vars

\* A frame came at least two intervals after a 'high' session's last spawn
\* (every frame of SpecConverge does: 250 ms and more against 125 ms) and
\* spawned one particle, leaving the session below its capacity.
OneSpawnAfterLongGap ==
    /\ lastOp.name = "tick" /\ lastOp.hit
    /\ particleIdCounter = lastOp.id + 1
    /\ \E id \in DOMAIN activeEffects :
          /\ IntensityOf(activeEffects[id].options) = "high"
          /\ activeEffects[id].lastSpawnTime = now
          /\ Owned(id) < Capacity(id)

\* C30 (checked in SpecDegrade): at the end of every active frame, if the
\* average of the frame-time samples exceeds 16 ms the global intensity is
\* 'low'.
CriticalEndsAtLow ==
    (lastOp.name = "tick" /\ lastOp.hit /\ isCritical(frameTimes))
       => globalIntensity = "low"

\* The first frame of a run cost more than 16 ms and ended at 'low', which
\* no setIntensity call of SpecDegrade asks for.
FirstFrameCritical ==
    /\ lastOp.name = "tick" /\ lastOp.hit
    /\ frameCount = 1
    /\ isCritical(frameTimes)
    /\ globalIntensity = "low"

(***************************************************************************)
(* SpecMonitor: the PerformanceMonitor on its own: endFrame, subscribe and *)
(* reset.  So that the window shows which samples it holds, the n-th       *)
(* endFrame since the last reset measures a frame time of n ms.            *)
(***************************************************************************)
MonitorFrames == 62    \* endFrame calls between two resets in SpecMonitor

\* The frame time the n-th endFrame call measures.
MonitorSample(n) == n

NextMonitor ==
    \/ /\ frameCount < MonitorFrames
       /\ endFrame(MonitorSample(frameCount + 1))
       /\ Observed("endFrame", frameCount + 1,
                   MonitorSample(frameCount + 1) > MAX_FRAME_TIME, "",
                   NoOptions)
    \/ \E callback \in Callbacks :
          /\ subscribe(callback)
          /\ Observed("subscribe", 0, TRUE, callback, NoOptions)
    \/ reset /\ Observed("reset", frameCount, frameCount > 0, "", NoOptions)

SpecMonitor == Init /\ [][NextMonitor]_vars

\* C31: after n endFrame calls since construction or the last reset the
\* window holds the min(n, 60) most recent samples in arrival order: never
\* more than 60, the oldest evicted first.
WindowHoldsMostRecent ==
    LET k == Min(frameCount, maxSamples) IN
    /\ Len(frameTimes) = k
    /\ \A i \in 1..k : frameTimes[i] = MonitorSample(frameCount - k + i)

\* 62 endFrame calls have been made: the samples of the first two are gone.
WindowOverflowed ==
    /\ lastOp.name = "endFrame"
    /\ frameCount = 62
    /\ Len(frameTimes) = 60
    /\ frameTimes[1] = MonitorSample(3)
    /\ frameTimes[60] = MonitorSample(62)

\* C32 (checked in SpecConverge): a running session's capacity is its
\* effect's base count times the count multiplier of its intensity, rounded
\* down (0, 0.4, 1 and 1.8 times), so that at 'high' it exceeds the base
\* count.
CapacityFollowsMultipliers ==
    \A id \in DOMAIN activeEffects :
       LET base == RendererBase(activeEffects[id].renderer)
           level == IntensityOf(activeEffects[id].options)
       IN /\ Capacity(id) = ScaledCount(base, level)
          /\ level = "high" => Capacity(id) > base

\* C33 (checked in SpecLifecycle): at most one frame callback is pending in
\* any state: exactly one, the one animationId names, while the engine
\* holds the canvas and context of a successful init, and none before init,
\* after a failed init or after destroy.
OneOutstandingFrame ==
    /\ Cardinality(pendingFrames) <= 1
    /\ (canvas /\ ctx) <=> Cardinality(pendingFrames) = 1
    /\ pendingFrames # {} => pendingFrames = {animationId}

\* A frame callback has just run; two requested callbacks have run or been
\* cancelled before, and the third is pending.
ThirdFramePending ==
    /\ lastOp.name = "tick"
    /\ frameHandles = 3
    /\ canvases = 1
    /\ pendingFrames = {3}

\* C34 (checked in SpecReentrant): stop(instance) of a running session
\* removes that session only: every other session's record (id set,
\* options, lastSpawnTime) and its particles' table entries and records are
\* as before, and the one event emitted is 'stop' with the stopped
\* session's type.
StopLeavesOthers ==
    [][(lastOp'.name = "stop" /\ lastOp'.hit) =>
          LET id == lastOp'.id IN
          /\ DOMAIN activeEffects' = DOMAIN activeEffects \ {id}
          /\ \A other \in DOMAIN activeEffects' :
                /\ activeEffects'[other] = activeEffects[other]
                /\ \A pid \in activeEffects[other].particleIds :
                      /\ pid \in DOMAIN particles'
                      /\ particles'[pid] = particles[pid]
                      /\ heap'[particles[pid].particle]
                            = heap[particles[pid].particle]
          /\ emitted' = <<[event |-> "stop", type |-> activeEffects[id].type]>>
      ]_vars

\* One of two sessions has been stopped; the other still owns particles.
StoppedOneKeptOther ==
    /\ lastOp.name = "stop" /\ lastOp.hit
    /\ effectIdCounter = 2
    /\ \E other \in DOMAIN activeEffects :
          /\ other # lastOp.id
          /\ Owned(other) > 0
          /\ activeEffects[other].particleIds \subseteq DOMAIN particles

(***************************************************************************)
(* SpecRegister: the type 'sky-lanterns' is registered, and registered     *)
(* again, with either of two renderers (capacities 6 and 12), while        *)
(* sessions of that type are started and frames run.                       *)
(***************************************************************************)
RegisterStarts == 2    \* sessions created in one run of SpecRegister
RegisterFrames == 2    \* frames rendered in one run of SpecRegister

RegisterRenderers == {"SkyLanternsRenderer", "BalloonsRenderer"}

RegisterDeltas == {750}

\* registerEffect(type, renderer): the renderer, and whether the type was
\* registered before.
ObservedRegister(type, renderer) ==
    /\ registerEffect(type, renderer)
    /\ Observed("registerEffect", 0, type \in DOMAIN effects, renderer,
                NoOptions)

NextRegister ==
    \/ init(TRUE) /\ Unobserved
    \/ \E renderer \in RegisterRenderers :
          ObservedRegister("sky-lanterns", renderer)
    \/ /\ canvas
       /\ StartCreates("sky-lanterns", NoOptions) =>
             effectIdCounter < RegisterStarts
       /\ ObservedStart("sky-lanterns", NoOptions)
    \/ \E delta \in RegisterDeltas, frameCost \in FrameCosts :
          /\ frameCount < RegisterFrames
          /\ ObservedFrame(delta, {}, frameCost)

SpecRegister == Init /\ [][NextRegister]_vars

\* C35: registering a type again changes no running session: a session
\* keeps the renderer registered when it was started, every particle it
\* owns is as that renderer spawns it, it owns at most that renderer's
\* capacity and a due frame fills it up to that capacity; a session started
\* later gets the renderer registered then.
SessionKeepsDefinition ==
    /\ [](\A id \in DOMAIN activeEffects :
            /\ Owned(id) <= Capacity(id)
            /\ \A pid \in activeEffects[id].particleIds :
                  heap[particles[pid].particle]
                     = RendererSpawn(activeEffects[id].renderer,
                                     heap[particles[pid].particle]))
    /\ [][/\ lastOp'.name = "registerEffect" =>
               /\ activeEffects' = activeEffects
               /\ particles' = particles
               /\ heap' = heap
               /\ effects'["sky-lanterns"] = lastOp'.type
          /\ (lastOp'.name = "start" /\ lastOp'.hit) =>
               /\ activeEffects'[lastOp'.id].renderer = effects[lastOp'.type]
               /\ \A id \in DOMAIN activeEffects :
                     activeEffects'[id] = activeEffects[id]
          /\ (lastOp'.name = "tick" /\ lastOp'.hit) =>
               \A id \in DOMAIN activeEffects :
                  /\ activeEffects'[id].renderer = activeEffects[id].renderer
                  /\ Owned(id) < Capacity(id) =>
                        Cardinality(activeEffects'[id].particleIds)
                           = Owned(id) + 1]_vars

\* A frame has spawned a particle for a session whose type is by now
\* registered with another renderer, of a smaller capacity than the
\* session already fills.
SpawnedAfterReregistration ==
    /\ lastOp.name = "tick" /\ lastOp.hit
    /\ \E id \in DOMAIN activeEffects :
          /\ activeEffects[id].renderer = "BalloonsRenderer"
          /\ effects[activeEffects[id].type] = "SkyLanternsRenderer"
          /\ Owned(id) > 6
          /\ MaxOf(activeEffects[id].particleIds) >= lastOp.id

\* C36 (checked in SpecCeiling): in every state between two operations the
\* pool's active count is the number of entries of the particle table, and
\* that is the sum of the running sessions' owned counts.
ActiveCountIsTableSize ==
    LET ids == SortedSeq(DOMAIN activeEffects) IN
    /\ getActiveCount = Cardinality(DOMAIN particles)
    /\ Cardinality(DOMAIN particles)
          = SumSeq([i \in 1..Len(ids) |-> Owned(ids[i])])

\* A frame has reclaimed particles while two sessions were running and
\* records stayed in use.
ReclaimedAmongTwoSessions ==
    /\ lastOp.name = "tick" /\ lastOp.hit
    /\ rejected # {}
    /\ Cardinality(DOMAIN activeEffects) = 2
    /\ getActiveCount > 0

(***************************************************************************)
(* SpecEvents: sessions of the sky-lanterns effect ended in every way the  *)
(* engine has: stop(instance), stopAll(), setIntensity('off'), the user    *)
(* turning reduced motion on, and destroy().                               *)
(***************************************************************************)
EventStarts == 1     \* sessions created in one run of SpecEvents
EventHandles == 2    \* frame callbacks requested in one run of SpecEvents

EventOptions == {NoOptions, LowOptions}

NextEvents ==
    \/ /\ frameHandles < EventHandles
       /\ ObservedInit(TRUE)
    \/ \E reg \in Registrations : registerEffect(reg[1], reg[2]) /\ Unobserved
    \/ \E type \in EffectTypes, options \in EventOptions :
          /\ StartCreates(type, options) => effectIdCounter < EventStarts
          /\ ObservedStart(type, options)
    \/ \E id \in HandleIds : ObservedStop(id)
    \/ ObservedStopAll
    \/ ObservedSetIntensity("off")
    \/ \E matches \in BOOLEAN : ObservedMediaChange(matches)
    \/ ObservedDestroy
    \/ \E delta \in LifecycleDeltas, frameCost \in FrameCosts :
          /\ frameHandles < EventHandles
          /\ ObservedFrame(delta, {}, frameCost)

SpecEvents == Init /\ [][NextEvents]_vars

\* The 'stop' events among the events of one operation.
StopEventsOf(events) ==
    SelectSeq(events, LAMBDA ev : ev.event = "stop")

\* C37: an operation emits a 'stop' event exactly when it is stop(instance)
\* of a session that exists, and then one, with that session's type; the
\* sessions removed by stopAll(), setIntensity('off'), the reduced-motion
\* change and destroy() go without any event.
StopEventOnlyFromStop ==
    [][/\ StopEventsOf(emitted') # <<>> <=>
             (lastOp'.name = "stop" /\ lastOp'.id \in DOMAIN activeEffects)
       /\ (lastOp'.name = "stop" /\ lastOp'.id \in DOMAIN activeEffects) =>
             /\ emitted' = <<[event |-> "stop",
                              type |-> activeEffects[lastOp'.id].type]>>
             /\ DOMAIN activeEffects' = DOMAIN activeEffects \ {lastOp'.id}
       /\ (\/ lastOp'.name \in {"stopAll", "destroy"}
           \/ lastOp'.name = "setIntensity" /\ lastOp'.type = "off"
           \/ lastOp'.name = "mediaChange" /\ prefersReducedMotion') =>
             /\ activeEffects' = <<>>
             /\ emitted' = <<>>]_vars

\* A session was started and none is running: it went with stopAll(),
\* setIntensity('off') or the reduced-motion change, which emitted nothing.
SessionsEndedSilently ==
    /\ lastOp.name \in {"stopAll", "setIntensity", "mediaChange"}
    /\ lastOp.hit
    /\ effectIdCounter >= 1
    /\ activeEffects = <<>>
    /\ pool.activeCount = 0
    /\ emitted = <<>>

\* C38 (checked in Spec): no record is aliased: no two entries of the
\* particle table hold the same record, no record is twice in the pool's
\* free list, and no record is in the free list and in an entry (the
\* entries hold as many records as there are entries, the free list as
\* many as it is long).
NoRecordAliased ==
    /\ Cardinality(LiveRefs) = Cardinality(DOMAIN particles)
    /\ Cardinality({pool.free[i] : i \in 1..Len(pool.free)})
          = Len(pool.free)
    /\ {pool.free[i] : i \in 1..Len(pool.free)} \cap LiveRefs = {}
    /\ LiveRefs \subseteq DOMAIN heap

\* The second session holds particles after the first was ended and its
\* records went back to the pool: records are in their second use.
RecordsReused ==
    /\ effectIdCounter = 2
    /\ DOMAIN activeEffects = {2}
    /\ Owned(2) > 0
    /\ \E pid \in DOMAIN particles :
          particles[pid].particle > Len(heap) - 3
====
